---- MODULE Spec2Model ----
(***************************************************************************)
(* The ops controller of .railway/ops-controller: the monitoring loop of   *)
(* OpsController (ops_controller.py) driving PostgresConfigurator          *)
(* (postgres_configurator.py), DigitalOceanManager                         *)
(* (digitalocean_manager.py) and RailwayClient (railway_client.py) under   *)
(* the settings of Config (config.py).                                     *)
(*                                                                         *)
(* One process runs run_monitoring_loop; pc is its position.  The database,*)
(* the provider's droplets and the state file outlive the process.  An     *)
(* interrupt ends the process; a later start constructs a new controller   *)
(* under the environment of that moment and loads the state file.          *)
(***************************************************************************)
EXTENDS Integers, Sequences, FiniteSets, TLC

VARIABLES
    pc,                          \* position of the process in run_monitoring_loop
    cfg,                         \* Config, read from the environment at import
    deployment_state,            \* OpsController.deployment_state
    config_cache,                \* OpsController.config_cache
    consecutive_healthy_cycles,  \* OpsController.consecutive_healthy_cycles
    is_disabled,                 \* OpsController.is_disabled
    file,                        \* /tmp/ops-controller-state.json
    db,                          \* the PostgreSQL server
    droplets,                    \* the provider's droplets carrying the tag, in listing order
    cyc,                         \* history: what the current cycle did
    streak,                      \* history: fully healthy cycles in a row since a cycle began at counter 0
    call                         \* a single call of one operation, with its arguments and result

vars == <<pc, cfg, deployment_state, config_cache, consecutive_healthy_cycles,
          is_disabled, file, db, droplets, cyc, streak, call>>

mem == <<deployment_state, config_cache, consecutive_healthy_cycles, is_disabled>>

----------------------------------------------------------------------------
(* Bounds of the model *)

MaxThreshold == 2
MaxCycles == 2
MaxDroplets == 2
MaxLogWords == 2
MaxPolls == 3
MaxAttempts == 3
MaxUses == 2

----------------------------------------------------------------------------
(* Config (config.py) *)

\* the environments a process is started under: auto-disable off, auto-disable
\* on with each threshold, and one environment per way of being invalid or
\* inactive
DefaultEnv ==
    [creds |-> TRUE, CHECK_INTERVAL |-> 1, IS_ACTIVE |-> TRUE,
     AUTO_DISABLE |-> FALSE, HEALTHY_CYCLES_BEFORE_DISABLE |-> MaxThreshold]

Envs ==
    {DefaultEnv}
    \cup {[DefaultEnv EXCEPT !.AUTO_DISABLE = TRUE, !.HEALTHY_CYCLES_BEFORE_DISABLE = n] :
             n \in 1..MaxThreshold}
    \cup {[DefaultEnv EXCEPT !.creds = FALSE],
          [DefaultEnv EXCEPT !.CHECK_INTERVAL = 61],
          [DefaultEnv EXCEPT !.IS_ACTIVE = FALSE]}

\* Config.validate: the required variables are set and 1 <= CHECK_INTERVAL <= 60
validate(c) ==
    IF ~c.creds THEN FALSE
    ELSE IF ~(1 <= c.CHECK_INTERVAL /\ c.CHECK_INTERVAL <= 60) THEN FALSE
    ELSE TRUE

\* strings as sequences of characters; SUPERVISOR_TAG_PREFIX, shortened to its
\* initials
TagPrefix == <<"t", "-", "s">>
DefaultEnvId == <<"d", "e", "f", "a", "u", "l", "t">>

\* RAILWAY_ENVIRONMENT_ID[:8]
EnvIdLength == 8

Truncate(str, n) == IF Len(str) <= n THEN str ELSE SubSeq(str, 1, n)

\* Config.get_supervisor_tag: the prefix, the project id and the first eight
\* characters of the environment id ("default" when it is not set), joined by "-"
get_supervisor_tag(project_id, environment_id) ==
    LET env_id == IF environment_id # <<>> THEN Truncate(environment_id, EnvIdLength)
                  ELSE DefaultEnvId
    IN  TagPrefix \o <<"-">> \o project_id \o <<"-">> \o env_id

----------------------------------------------------------------------------
(* The configuration bundle (railway_client.py, ops_controller.py) *)

NoToken == ""
LogToken == "tr_wgt_a"

\* {} : the empty dict
EmptyBundle == [TRIGGER_WORKER_TOKEN |-> NoToken, MANAGED_WORKER_SECRET |-> FALSE,
                TRIGGER_API_URL |-> FALSE]

Bundles == [TRIGGER_WORKER_TOKEN : {NoToken, LogToken},
            MANAGED_WORKER_SECRET : BOOLEAN, TRIGGER_API_URL : BOOLEAN]

\* the web service's variables as the platform returns them: none, the secret
\* without the API origin, or both
WebappVars == {[secret |-> FALSE, url |-> FALSE], [secret |-> TRUE, url |-> FALSE],
               [secret |-> TRUE, url |-> TRUE]}

\* the words of the web service's log: LogToken and OtherToken match the pattern
\* tr_wgt_[a-zA-Z0-9]+, the bare prefix and any other word do not
OtherToken == "tr_wgt_b"
LogWords == {"noise", "tr_wgt_", LogToken, OtherToken}

token_pattern(w) == w \in {LogToken, OtherToken}

\* re.findall(token_pattern, logs)
findall(logs) == SelectSeq(logs, token_pattern)

\* a scan of the logs that keeps the first match
extract_worker_token_first_match(manual, cached_token, logs) ==
    IF manual # NoToken THEN [token |-> manual, fetched |-> FALSE]
    ELSE IF cached_token # NoToken THEN [token |-> cached_token, fetched |-> FALSE]
    ELSE LET matches == findall(logs) IN
         [token |-> IF matches # <<>> THEN matches[1] ELSE NoToken, fetched |-> TRUE]

\* RailwayClient.extract_worker_token: manual override, then cache, then the last
\* match in the logs.  logs is what get_deployment_logs would return (<<>>: "");
\* fetched tells whether it was called
extract_worker_token(manual, cached_token, logs) ==
    IF manual # NoToken THEN [token |-> manual, fetched |-> FALSE]
    ELSE IF cached_token # NoToken THEN [token |-> cached_token, fetched |-> FALSE]
    ELSE IF logs = <<>> THEN [token |-> NoToken, fetched |-> TRUE]
    ELSE LET matches == findall(logs) IN
         [token |-> IF matches # <<>> THEN matches[Len(matches)] ELSE NoToken,
          fetched |-> TRUE]

\* RailwayClient.get_configuration: the token, and the web service's variables
\* (secret, url: whether the variable is set to a non-empty value)
get_configuration(cached, manual, logs, secret, url) ==
    [TRIGGER_WORKER_TOKEN |->
         extract_worker_token(manual, cached.TRIGGER_WORKER_TOKEN, logs).token,
     MANAGED_WORKER_SECRET |-> secret,
     TRIGGER_API_URL |-> url]

\* an extraction that caches the bundle although no token was resolved
extract_configuration_without_token(cached, up, manual, logs, secret, url) ==
    IF ~up THEN EmptyBundle
    ELSE get_configuration(cached, manual, logs, secret, url)

\* OpsController.extract_configuration: {} when the platform call raises or no
\* token is resolved; otherwise the bundle, which is cached
extract_configuration(cached, up, manual, logs, secret, url) ==
    IF ~up THEN EmptyBundle
    ELSE LET config == get_configuration(cached, manual, logs, secret, url)
         IN  IF config.TRIGGER_WORKER_TOKEN = NoToken THEN EmptyBundle ELSE config

----------------------------------------------------------------------------
(* PostgresConfigurator (postgres_configurator.py) *)

DbStates == [wal : {"replica", "logical"}, walConf : {"replica", "logical"},
             ident : {"default", "full"}, pub : BOOLEAN]

DbInitial == [wal |-> "replica", walConf |-> "replica", ident |-> "default", pub |-> FALSE]

\* the reads that fail in one session
ReadErrs == {{}, {"wal"}, {"ident"}, {"pub"}}

\* a read of the configured setting instead of the level in effect
check_wal_level_reading_setting(d, errs) == IF "wal" \in errs THEN "unknown" ELSE d.walConf

\* PostgresConfigurator.check_wal_level: SHOW wal_level, "unknown" when it fails
check_wal_level(d, errs) == IF "wal" \in errs THEN "unknown" ELSE d.wal

check_replica_identity(d, errs) == IF "ident" \in errs THEN "error" ELSE d.ident

check_publication_exists(d, errs) == IF "pub" \in errs THEN FALSE ELSE d.pub

\* an explanation that stops at the first unmet condition
replication_issues_first_only(d, errs) ==
    IF check_wal_level(d, errs) # "logical"
    THEN <<[unmet |-> "wal_level", seen |-> check_wal_level(d, errs)]>>
    ELSE IF check_replica_identity(d, errs) # "full"
    THEN <<[unmet |-> "replica_identity", seen |-> check_replica_identity(d, errs)]>>
    ELSE IF ~check_publication_exists(d, errs)
    THEN <<[unmet |-> "publication", seen |-> "missing"]>>
    ELSE <<>>

\* a status read in which a read that fails ends the evaluation
replication_issues_stopping_at_error(d, errs) ==
    IF "wal" \in errs THEN <<[unmet |-> "wal_level", seen |-> "unknown"]>>
    ELSE (IF d.wal # "logical" THEN <<[unmet |-> "wal_level", seen |-> d.wal]>> ELSE <<>>)
         \o (IF "ident" \in errs THEN <<[unmet |-> "replica_identity", seen |-> "error"]>>
             ELSE (IF d.ident # "full"
                   THEN <<[unmet |-> "replica_identity", seen |-> d.ident]>> ELSE <<>>)
                  \o (IF ~check_publication_exists(d, errs)
                      THEN <<[unmet |-> "publication", seen |-> "missing"]>> ELSE <<>>))

\* PostgresConfigurator.is_replication_configured, the issues it collects
replication_issues(d, errs) ==
    (IF check_wal_level(d, errs) # "logical"
     THEN <<[unmet |-> "wal_level", seen |-> check_wal_level(d, errs)]>> ELSE <<>>)
    \o (IF check_replica_identity(d, errs) # "full"
        THEN <<[unmet |-> "replica_identity", seen |-> check_replica_identity(d, errs)]>>
        ELSE <<>>)
    \o (IF ~check_publication_exists(d, errs)
        THEN <<[unmet |-> "publication", seen |-> "missing"]>> ELSE <<>>)

\* PostgresConfigurator.is_replication_configured: true iff no issue was collected
is_replication_configured(d, errs) == replication_issues(d, errs) = <<>>

\* the server after a restart: the configured wal_level takes effect
Restarted(d) == [d EXCEPT !.wal = d.walConf]

\* what the restart callback meets: the server restarts and the session goes on,
\* the server restarts and the session is lost with it, the restart is not over
\* when the callback returns, restart_service returns false, or it raises
RestartOutcomes == {"ok", "ok_lost", "slow", "failed", "raised"}

\* what CREATE PUBLICATION meets: the server accepts it, refuses it, or a
\* concurrent session has created the publication since it was looked for
PubTries == {"ok", "refused", "raced"}

\* a create_publication for which every error is a failure
create_publication_strict(d, pubTry) ==
    LET at_exec == IF pubTry = "raced" THEN [d EXCEPT !.pub = TRUE] ELSE d IN
    IF at_exec.pub THEN [db |-> at_exec, ok |-> FALSE, error |-> "already exists"]
    ELSE IF pubTry = "refused" THEN [db |-> at_exec, ok |-> FALSE, error |-> "other"]
    ELSE [db |-> [at_exec EXCEPT !.pub = TRUE], ok |-> TRUE, error |-> "none"]

\* PostgresConfigurator.create_publication: an error saying "already exists"
\* counts as success, any other error as failure
create_publication(d, pubTry) ==
    LET at_exec == IF pubTry = "raced" THEN [d EXCEPT !.pub = TRUE] ELSE d IN
    IF at_exec.pub THEN [db |-> at_exec, ok |-> TRUE, error |-> "already exists"]
    ELSE IF pubTry = "refused" THEN [db |-> at_exec, ok |-> FALSE, error |-> "other"]
    ELSE [db |-> [at_exec EXCEPT !.pub = TRUE], ok |-> TRUE, error |-> "none"]

\* a convergence that sends its statement without looking at the status first
configure_replication_reissuing(d, errs, walOK, identOK, pubTry, restart) ==
    [db |-> [d EXCEPT !.ident = "full"],
     result |-> IF is_replication_configured([d EXCEPT !.ident = "full"], errs)
                THEN "true" ELSE "false",
     issued |-> {"ident"}, restart_requested |-> FALSE,
     trace |-> <<"alter_table", "verify">>]

\* a convergence that calls the restart callback as soon as ALTER SYSTEM was
\* accepted, before the other two steps
configure_replication_restarting_first(d, errs, walOK, identOK, pubTry, restart) ==
    IF check_wal_level(d, errs) # "logical" /\ walOK /\ restart # "raised"
    THEN [db |-> [d EXCEPT !.walConf = "logical"], result |-> "false",
          issued |-> {"wal"}, restart_requested |-> TRUE,
          trace |-> <<"status", "alter_system", "restart", "verify">>]
    ELSE [db |-> d, result |-> IF is_replication_configured(d, errs) THEN "true" ELSE "false",
          issued |-> {}, restart_requested |-> FALSE, trace |-> <<"status">>]

\* PostgresConfigurator.configure_replication with OpsController's restart
\* callback.  walOK, identOK: whether the server accepts the statement; pubTry:
\* what CREATE PUBLICATION meets; restart: what restart_service does.  result is
\* "raised" when the callback raises; issued: the statements sent;
\* restart_requested: whether the callback was called; trace: the status reads,
\* the statements and the callback in the order of the call.
configure_replication(d, errs, walOK, identOK, pubTry, restart) ==
    IF is_replication_configured(d, errs)
    THEN [db |-> d, result |-> "true", issued |-> {}, restart_requested |-> FALSE,
          trace |-> <<"status">>]
    ELSE
    LET needWal == check_wal_level(d, errs) # "logical"
        t1 == <<"status">> \o (IF needWal THEN <<"alter_system">> ELSE <<>>)
    IN
    IF needWal /\ ~walOK
    THEN [db |-> d, result |-> "false", issued |-> {"wal"}, restart_requested |-> FALSE,
          trace |-> t1]
    ELSE
    LET d1 == IF needWal THEN [d EXCEPT !.walConf = "logical"] ELSE d
        restart_needed == needWal
        sent1 == IF needWal THEN {"wal"} ELSE {}
        needIdent == check_replica_identity(d1, errs) # "full"
        sent2 == sent1 \cup (IF needIdent THEN {"ident"} ELSE {})
        t2 == t1 \o (IF needIdent THEN <<"alter_table">> ELSE <<>>)
    IN
    IF needIdent /\ ~identOK
    THEN [db |-> d1, result |-> "false", issued |-> sent2, restart_requested |-> FALSE,
          trace |-> t2]
    ELSE
    LET d2 == IF needIdent THEN [d1 EXCEPT !.ident = "full"] ELSE d1
        needPub == ~check_publication_exists(d2, errs)
        c == create_publication(d2, pubTry)
        sent3 == sent2 \cup (IF needPub THEN {"pub"} ELSE {})
        t3 == t2 \o (IF needPub THEN <<"create_publication">> ELSE <<>>)
    IN
    IF needPub /\ ~c.ok
    THEN [db |-> c.db, result |-> "false", issued |-> sent3, restart_requested |-> FALSE,
          trace |-> t3]
    ELSE
    LET d3 == IF needPub THEN c.db ELSE d2
        t4 == t3 \o (IF restart_needed THEN <<"restart">> ELSE <<>>)
    IN
    IF restart_needed /\ restart = "raised"
    THEN [db |-> d3, result |-> "raised", issued |-> sent3, restart_requested |-> TRUE,
          trace |-> t4]
    ELSE
    LET d4 == IF restart_needed /\ restart \in {"ok", "ok_lost"} THEN Restarted(d3) ELSE d3
        errs4 == IF restart_needed /\ restart = "ok_lost" THEN {"wal", "ident", "pub"}
                 ELSE errs
    IN
    [db |-> d4,
     result |-> IF is_replication_configured(d4, errs4) THEN "true" ELSE "false",
     issued |-> sent3, restart_requested |-> restart_needed,
     trace |-> t4 \o <<"verify">>]

\* the handles of one PostgresConfigurator: "none" (None), "open" or "closed"
NoHandles == [connection |-> "none", cursor |-> "none"]

\* what connect() meets: psycopg2.connect raises; the connection is made and
\* then setting autocommit or creating the cursor raises; or all of it succeeds
ConnectOutcomes == {"refused", "partial", "ok"}

\* PostgresConfigurator.connect: the handles it leaves, and whether it raises
\* (the except clause logs and re-raises)
connect(outcome) ==
    IF outcome = "refused" THEN [handles |-> NoHandles, raised |-> TRUE]
    ELSE IF outcome = "partial"
    THEN [handles |-> [connection |-> "open", cursor |-> "none"], raised |-> TRUE]
    ELSE [handles |-> [connection |-> "open", cursor |-> "open"], raised |-> FALSE]

\* PostgresConfigurator.close: closes the cursor and the connection it holds
close(h) ==
    [connection |-> IF h.connection # "none" THEN "closed" ELSE h.connection,
     cursor |-> IF h.cursor # "none" THEN "closed" ELSE h.cursor]

\* how the block of a 'with PostgresConfigurator() as pg' ends
BodyOutcomes == {"return", "early_return", "failed_check", "failed_mutation", "exception"}

----------------------------------------------------------------------------
(* DigitalOceanManager (digitalocean_manager.py) *)

\* the answers of the health endpoint: an HTTP status, or no connection
HealthOutcomes == {"200", "500", "unreachable"}

\* Config.get_supervisor_tag for this environment, the tag of another
\* environment of the same project, and the tag every supervisor droplet carries
SupervisorTag == "trigger-supervisor-p-env1"
OtherEnvTag == "trigger-supervisor-p-env2"
CommonTag == "trigger-supervisor"

\* get_existing_droplets, the filter: the droplets of the provider's listing
\* whose tags contain the deployment's tag
tagged_droplets(all_droplets) ==
    SelectSeq(all_droplets, LAMBDA droplet : SupervisorTag \in droplet.tags)

\* DigitalOceanManager.get_existing_droplets: the tagged droplets, [] when the
\* listing raises
get_existing_droplets(ds, listOK) == IF listOK THEN ds ELSE <<>>

\* DigitalOceanManager.is_supervisor_deployed
is_supervisor_deployed(ds, listOK) == get_existing_droplets(ds, listOK) # <<>>

\* DigitalOceanManager.create_droplet: none when a tagged droplet is found or the
\* provider refuses (createOK false, or the account's droplet limit is reached)
create_droplet(ds, listOK, createOK) ==
    IF is_supervisor_deployed(ds, listOK) THEN [droplets |-> ds, created |-> FALSE]
    ELSE IF createOK /\ Len(ds) < MaxDroplets
         THEN [droplets |-> Append(ds, [ip |-> FALSE]), created |-> TRUE]
         ELSE [droplets |-> ds, created |-> FALSE]

\* time.sleep(10) between two polls of wait_for_droplet_ready, in seconds
PollInterval == 10

\* what droplet.load() takes, in seconds
LoadTimes == {0, 1}

\* what one droplet.load() shows: it raises, or the droplet's status and whether
\* it has an address
PollResults ==
    {[raised |-> TRUE, status |-> "new", ip |-> FALSE]}
    \cup [raised : {FALSE}, status : {"new", "active", "off"}, ip : BOOLEAN]

\* a readiness test that is content with an address
droplet_ready_any_address(p) == ~p.raised /\ p.ip

\* wait_for_droplet_ready: droplet.ip_address and droplet.status == "active"
droplet_ready(p) == ~p.raised /\ p.ip /\ p.status = "active"

\* wait_for_droplet_ready: the loop's test, time.time() - start_time < timeout
within_timeout(elapsed, timeout) == elapsed < timeout

\* wait_for_droplet_ready, one passage through the loop: w holds the time elapsed
\* since start_time; p is what the poll shows and d the time it takes.  The
\* loop ends with False when the timeout has elapsed and with True on a ready
\* droplet; otherwise, also after a poll that raised, it sleeps and goes on.
wait_for_droplet_ready(w, p, d) ==
    IF ~within_timeout(w.elapsed, w.timeout)
    THEN [w EXCEPT !.done = TRUE, !.result = FALSE]
    ELSE IF droplet_ready(p)
    THEN [w EXCEPT !.done = TRUE, !.result = TRUE, !.last = p, !.polls = @ + 1,
                   !.seen_ip = @ \/ p.ip, !.elapsed = @ + d]
    ELSE [w EXCEPT !.last = p, !.polls = @ + 1, !.seen_ip = @ \/ p.ip,
                   !.elapsed = @ + d + PollInterval]

\* what one request to the health endpoint may meet: the answers above, and a
\* success status other than 200 (which a cycle treats like "500")
HealthAnswers == HealthOutcomes \cup {"204"}

\* test_supervisor_health, the test of one answer: response.status_code == 200;
\* a request that raises is passed over
health_ok(answer) == answer = "200"

\* test_supervisor_health, the loop from the given attempt on: answers[k] is what
\* the k-th request meets; requests counts the requests sent
RECURSIVE health_attempts(_, _, _)
health_attempts(answers, max_attempts, attempt) ==
    IF attempt > max_attempts THEN [result |-> FALSE, requests |-> attempt - 1]
    ELSE IF health_ok(answers[attempt]) THEN [result |-> TRUE, requests |-> attempt]
    ELSE health_attempts(answers, max_attempts, attempt + 1)

\* DigitalOceanManager.test_supervisor_health: true at the first attempt that
\* answers 200, false after max_attempts attempts
test_supervisor_health(answers, max_attempts) == health_attempts(answers, max_attempts, 1)

\* an endpoint that answers every request of one poll alike
SteadyAnswers(health) == [k \in 1..MaxAttempts |-> health]

\* a validation that asks for the worker token only
missing_keys_token_only(config) == config.TRIGGER_WORKER_TOKEN = NoToken

\* DigitalOceanManager.deploy_supervisor's validation of the bundle
missing_keys(config) ==
    \/ config.TRIGGER_WORKER_TOKEN = NoToken
    \/ ~config.MANAGED_WORKER_SECRET
    \/ ~config.TRIGGER_API_URL

\* a deployment that trusts a droplet that became ready
do_deploy_supervisor_trusting_ready(ds, config, list2, list3, createOK, ready, health) ==
    IF missing_keys(config)
    THEN [droplets |-> ds, ok |-> FALSE, path |-> "deploy_missing_keys",
          stages |-> <<"validate">>]
    ELSE LET c == create_droplet(ds, list3, createOK) IN
         IF ~c.created
         THEN [droplets |-> ds, ok |-> FALSE, path |-> "deploy_not_created",
               stages |-> <<"validate", "find", "create">>]
         ELSE [droplets |-> c.droplets, ok |-> ready,
               path |-> IF ready THEN "deploy_verified" ELSE "deploy_timeout",
               stages |-> <<"validate", "find", "create", "wait">>]

\* DigitalOceanManager.deploy_supervisor.  list2, list3: whether the listing in
\* deploy_supervisor and the one in create_droplet succeed; ready: whether
\* wait_for_droplet_ready saw the droplet active with an address in time; health:
\* what the health endpoint answers.  path names the stage that decided the
\* result, stages the stages that ran, in order.
do_deploy_supervisor(ds, config, list2, list3, createOK, ready, health) ==
    IF missing_keys(config)
    THEN [droplets |-> ds, ok |-> FALSE, path |-> "deploy_missing_keys",
          stages |-> <<"validate">>]
    ELSE
    LET existing_droplets == get_existing_droplets(ds, list2)
        healthy == test_supervisor_health(SteadyAnswers(health), MaxAttempts).result
    IN
    IF existing_droplets # <<>> /\ existing_droplets[1].ip
    THEN [droplets |-> ds, ok |-> healthy,
          path |-> IF healthy THEN "deploy_verified" ELSE "deploy_unhealthy",
          stages |-> <<"validate", "find", "health">>]
    ELSE
    LET c == create_droplet(ds, list3, createOK) IN
    IF ~c.created
    THEN [droplets |-> ds, ok |-> FALSE, path |-> "deploy_not_created",
          stages |-> <<"validate", "find", "create">>]
    ELSE IF ~ready
    THEN [droplets |-> c.droplets, ok |-> FALSE, path |-> "deploy_timeout",
          stages |-> <<"validate", "find", "create", "wait">>]
    ELSE [droplets |-> [c.droplets EXCEPT ![Len(c.droplets)].ip = TRUE],
          ok |-> healthy,
          path |-> IF healthy THEN "deploy_verified" ELSE "deploy_unhealthy",
          stages |-> <<"validate", "find", "create", "wait", "health">>]

\* DigitalOceanManager.get_deployment_info: "absent" ({"deployed": False}),
\* "raised" (droplet.load() raises), or the first droplet's record
get_deployment_info(ds, listOK, loadOK) ==
    LET found == get_existing_droplets(ds, listOK) IN
    IF found = <<>> THEN [deployed |-> "absent", ip |-> FALSE]
    ELSE IF ~loadOK THEN [deployed |-> "raised", ip |-> FALSE]
    ELSE [deployed |-> "present", ip |-> found[1].ip]

\* DigitalOceanManager.destroy_droplet, the loop over the droplets found, from
\* the i-th on: the first destroy that raises returns False out of the loop.
\* kept: the droplets still there; attempted: the positions destroy() was called on
RECURSIVE destroy_each(_, _, _)
destroy_each(found, destroyOK, i) ==
    IF i > Len(found) THEN [kept |-> <<>>, attempted |-> {}, result |-> TRUE]
    ELSE IF ~destroyOK[i]
    THEN [kept |-> SubSeq(found, i, Len(found)), attempted |-> {i}, result |-> FALSE]
    ELSE LET rest == destroy_each(found, destroyOK, i + 1) IN
         [kept |-> rest.kept, attempted |-> {i} \cup rest.attempted, result |-> rest.result]

\* DigitalOceanManager.destroy_droplet: True when no droplet is found; destroyOK[i]
\* tells whether the provider destroys the i-th droplet of the listing
destroy_droplet(ds, listOK, destroyOK) ==
    LET found == get_existing_droplets(ds, listOK) IN
    IF found = <<>> THEN [droplets |-> ds, attempted |-> {}, result |-> TRUE]
    ELSE LET r == destroy_each(found, destroyOK, 1) IN
         [droplets |-> r.kept, attempted |-> r.attempted, result |-> r.result]

----------------------------------------------------------------------------
(* OpsController (ops_controller.py): the steps of a cycle *)

CleanState == [config_extracted |-> FALSE, postgres_configured |-> FALSE,
               supervisor_deployed |-> FALSE]

\* deployment_state after load_state read a record whose "deployment_state" is
\* null: None, on which every .get raises
NoneState == [config_extracted |-> FALSE, postgres_configured |-> FALSE,
              supervisor_deployed |-> FALSE, none |-> TRUE]

\* the record save_state writes (the timestamp is not read back)
StateRecord(ds, cache, n, dis) ==
    [deployment_state |-> ds, config_cache |-> cache,
     consecutive_healthy_cycles |-> n, is_disabled |-> dis]

\* JSON values, as json.dump writes and json.load reads them
JTrue == [t |-> "true"]
JFalse == [t |-> "false"]
JNull == [t |-> "null"]
JNumber(n) == [t |-> "number", v |-> n]
JString(str) == [t |-> "string", v |-> str]
JObject(members) == [t |-> "object", members |-> members]

\* the text of a variable of the bundle: set to something, or ""
VarText(set) == IF set THEN "value" ELSE ""

\* json.dump of a bool, of deployment_state (a dict of bools, or None) and of
\* config_cache (a dict of strings, or {})
dump_bool(b) == IF b THEN JTrue ELSE JFalse

dump_deployment_state(ds) ==
    IF ds = NoneState THEN JNull
    ELSE JObject([config_extracted |-> dump_bool(ds.config_extracted),
                  postgres_configured |-> dump_bool(ds.postgres_configured),
                  supervisor_deployed |-> dump_bool(ds.supervisor_deployed)])

dump_config_cache(cache) ==
    IF cache = EmptyBundle THEN JObject(<<>>)
    ELSE JObject([TRIGGER_WORKER_TOKEN |-> JString(cache.TRIGGER_WORKER_TOKEN),
                  MANAGED_WORKER_SECRET |-> JString(VarText(cache.MANAGED_WORKER_SECRET)),
                  TRIGGER_API_URL |-> JString(VarText(cache.TRIGGER_API_URL))])

\* save_state: the dict it builds, as json.dump writes it
json_dump(state) ==
    JObject([deployment_state |-> dump_deployment_state(state.deployment_state),
             config_cache |-> dump_config_cache(state.config_cache),
             consecutive_healthy_cycles |-> JNumber(state.consecutive_healthy_cycles),
             is_disabled |-> dump_bool(state.is_disabled)])

\* the truth value Python gives what json.load returned
truthy(j) ==
    IF j.t = "true" THEN TRUE
    ELSE IF j.t \in {"false", "null"} THEN FALSE
    ELSE IF j.t = "number" THEN j.v # 0
    ELSE IF j.t = "string" THEN j.v # ""
    ELSE j.members # <<>>

load_deployment_state(j) ==
    IF j.t = "null" THEN NoneState
    ELSE [config_extracted |-> truthy(j.members.config_extracted),
          postgres_configured |-> truthy(j.members.postgres_configured),
          supervisor_deployed |-> truthy(j.members.supervisor_deployed)]

load_config_cache(j) ==
    IF j.members = <<>> THEN EmptyBundle
    ELSE [TRIGGER_WORKER_TOKEN |-> j.members.TRIGGER_WORKER_TOKEN.v,
          MANAGED_WORKER_SECRET |-> j.members.MANAGED_WORKER_SECRET.v # "",
          TRIGGER_API_URL |-> j.members.TRIGGER_API_URL.v # ""]

\* a load that leaves is_disabled at the constructor's value
json_load_without_mode(doc) ==
    StateRecord(load_deployment_state(doc.members.deployment_state),
                load_config_cache(doc.members.config_cache),
                doc.members.consecutive_healthy_cycles.v,
                FALSE)

\* load_state: json.load and the four state.get
json_load(doc) ==
    StateRecord(load_deployment_state(doc.members.deployment_state),
                load_config_cache(doc.members.config_cache),
                doc.members.consecutive_healthy_cycles.v,
                truthy(doc.members.is_disabled))

\* OpsController.load_state: the record read from the file; an absent or
\* unreadable file raises inside the try, the exception is swallowed and the
\* constructor's values stay
load_state(f, current) ==
    IF f.state \in {"absent", "torn"} THEN current ELSE json_load(f.record)

\* the state file: absent, truncated or partly written ("torn"), or the whole
\* text of a record; record is the text json.dump wrote
NoRecord == StateRecord(CleanState, EmptyBundle, 0, FALSE)
FileAbsent == [state |-> "absent", record |-> json_dump(NoRecord)]
FileTorn == [state |-> "torn", record |-> json_dump(NoRecord)]
FileOf(r) == [state |-> "whole", record |-> json_dump(r)]

\* a loop head that does not look at is_disabled
loop_branch_ignoring_disabled(dis) == "validate"

\* run_monitoring_loop, head of the loop: idle for ever once disabled
loop_branch(dis) == IF dis THEN "idle" ELSE "validate"

\* a loop that runs the cycle whatever validate_environment returned
after_validation_ignoring_result(ok) == "cycle"

\* a validation failure that 'continue's past save_state
after_validation_skipping_save(ok) == IF ok THEN "cycle" ELSE "sleep"

\* run_monitoring_loop: a failed validation skips _run_monitoring_cycle and
\* goes on to save_state
after_validation(ok) == IF ok THEN "cycle" ELSE "save"

\* a loop whose handler lets the exception end it
loop_except_ending_loop(exc) == IF exc = "none" THEN "save" ELSE "stopped"

\* run_monitoring_loop, the except clauses around an iteration: KeyboardInterrupt
\* breaks the loop, any other exception is logged and followed by a sleep of
\* CHECK_INTERVAL minutes; with no exception the iteration goes on to save_state
loop_except(exc) ==
    IF exc = "none" THEN "save"
    ELSE IF exc = "KeyboardInterrupt" THEN "stopped"
    ELSE "backoff"

\* a sleep time that is the plain difference
sleep_time_unclamped(check_interval, cycle_duration) ==
    (check_interval * 60) - cycle_duration

\* run_monitoring_loop: sleep_time = max(0, (Config.CHECK_INTERVAL * 60) -
\* cycle_duration), in seconds
sleep_time(check_interval, cycle_duration) ==
    LET rest == (check_interval * 60) - cycle_duration IN
    IF rest > 0 THEN rest ELSE 0

\* run_monitoring_loop: time.sleep(sleep_time) when sleep_time > 0, otherwise
\* the warning and the next iteration at once
after_cycle(sleep) == IF sleep > 0 THEN "sleep" ELSE "warning"

\* _run_monitoring_cycle, step 1: whether extraction runs
needs_extraction(ds, cache) == ~ds.config_extracted \/ cache = EmptyBundle

\* OpsController.configure_postgres
configure_postgres(d, connOK, errs, walOK, identOK, pubTry, restart) ==
    IF ~connOK THEN [db |-> d, ok |-> FALSE, path |-> "configure_exc", converged |-> FALSE]
    ELSE IF is_replication_configured(d, errs)
    THEN [db |-> d, ok |-> TRUE, path |-> "configure_already", converged |-> FALSE]
    ELSE LET r == configure_replication(d, errs, walOK, identOK, pubTry, restart) IN
         [db |-> r.db, ok |-> r.result = "true",
          path |-> IF r.result = "true" THEN "configure_ok" ELSE "configure_fail",
          converged |-> TRUE]

\* a re-check that logs the regression and keeps the flag
postgres_recheck_keeping_flag(d, connOK, errs) ==
    IF ~connOK THEN [flag |-> TRUE, path |-> "recheck_exc"]
    ELSE IF is_replication_configured(d, errs) THEN [flag |-> TRUE, path |-> "recheck_ok"]
    ELSE [flag |-> TRUE, path |-> "recheck_bad"]

\* _run_monitoring_cycle, step 2 when postgres_configured is set: the re-check
\* downgrades the flag when the database is found not configured; a connection
\* that raises is logged
postgres_recheck(d, connOK, errs) ==
    IF ~connOK THEN [flag |-> TRUE, path |-> "recheck_exc"]
    ELSE IF is_replication_configured(d, errs) THEN [flag |-> TRUE, path |-> "recheck_ok"]
    ELSE [flag |-> FALSE, path |-> "recheck_bad"]

\* a cycle that goes from a failed database step straight to the evaluation
after_postgres_step_skipping_compute(postgres_success) ==
    IF postgres_success THEN "supervisor" ELSE "evaluate"

\* _run_monitoring_cycle, after step 2: a database step that failed, or a
\* re-check that raised, is logged and step 3 follows in every case
after_postgres_step(postgres_success) == "supervisor"

\* OpsController.deploy_supervisor
deploy_supervisor(ds, cache, list1, loadOK, list2, list3, createOK, ready, health) ==
    IF cache = EmptyBundle THEN [droplets |-> ds, ok |-> FALSE, path |-> "deploy_no_config"]
    ELSE
    LET deployment_info == get_deployment_info(ds, list1, loadOK) IN
    IF deployment_info.deployed = "raised"
    THEN [droplets |-> ds, ok |-> FALSE, path |-> "deploy_exc"]
    ELSE IF deployment_info.deployed = "present"
    THEN [droplets |-> ds, ok |-> TRUE, path |-> "deploy_existing"]
    ELSE do_deploy_supervisor(ds, cache, list2, list3, createOK, ready, health)

\* _run_monitoring_cycle, step 3 when supervisor_deployed is set: only a missing
\* droplet downgrades the flag
supervisor_recheck(ds, listOK, loadOK, health) ==
    LET deployment_info == get_deployment_info(ds, listOK, loadOK) IN
    IF deployment_info.deployed = "raised" THEN [flag |-> TRUE, path |-> "recheck_exc"]
    ELSE IF deployment_info.deployed = "absent" THEN [flag |-> FALSE, path |-> "recheck_absent"]
    ELSE IF ~deployment_info.ip THEN [flag |-> TRUE, path |-> "recheck_noip"]
    ELSE IF health = "unreachable" THEN [flag |-> TRUE, path |-> "recheck_unreachable"]
    ELSE IF health = "200" THEN [flag |-> TRUE, path |-> "recheck_healthy"]
    ELSE [flag |-> TRUE, path |-> "recheck_http"]

\* _run_monitoring_cycle: overall health
is_fully_healthy(ds) ==
    ds.config_extracted /\ ds.postgres_configured /\ ds.supervisor_deployed

\* an evaluation that leaves the counter as it is after an unhealthy cycle
next_counter_without_reset(healthy, n) == IF healthy THEN n + 1 ELSE n

\* _run_monitoring_cycle: the counter after the evaluation
next_counter(healthy, n) == IF healthy THEN n + 1 ELSE 0

\* an auto-disable test that is one cycle late
auto_disable_one_late(c, healthy, n) ==
    healthy /\ c.AUTO_DISABLE /\ n > c.HEALTHY_CYCLES_BEFORE_DISABLE

\* _run_monitoring_cycle: the auto-disable test, on the incremented counter
auto_disable(c, healthy, n) ==
    healthy /\ c.AUTO_DISABLE /\ n >= c.HEALTHY_CYCLES_BEFORE_DISABLE

\* a status check that converges the database it finds not configured
run_check_status_converging(d, ds, connOK, errs, listOK, loadOK) ==
    LET r == configure_postgres(d, connOK, errs, TRUE, TRUE, "ok", "ok")
        deployment_info == get_deployment_info(ds, listOK, loadOK)
    IN  [db |-> r.db, droplets |-> ds,
         issued |-> IF r.db = d THEN {} ELSE {"wal", "ident", "pub"},
         postgres |-> IF r.ok THEN "configured" ELSE "not_configured",
         supervisor |-> deployment_info.deployed,
         returned |-> IF deployment_info.deployed = "raised" THEN "raised" ELSE "true"]

\* OpsController.run_check_status: reads the replication status, when the
\* connection is made, and the deployment info; db and droplets are the server
\* and the provider's droplets when it returns, issued the statements it sent.
\* get_deployment_info is called outside any try: when droplet.load() raises,
\* so does run_check_status
run_check_status(d, ds, connOK, errs, listOK, loadOK) ==
    LET deployment_info == get_deployment_info(ds, listOK, loadOK) IN
    [db |-> d, droplets |-> ds, issued |-> {},
     postgres |-> IF ~connOK THEN "unchecked"
                  ELSE IF is_replication_configured(d, errs) THEN "configured"
                  ELSE "not_configured",
     supervisor |-> deployment_info.deployed,
     returned |-> IF deployment_info.deployed = "raised" THEN "raised" ELSE "true"]

----------------------------------------------------------------------------
(* History of the current cycle *)

CycNone == [kind |-> "none", pg |-> "none", sv |-> "none", converged |-> FALSE,
            save |-> "none", exc |-> "none"]

\* no single call is observed while the loop runs
NoCall == [op |-> "none"]

\* fully healthy cycles in a row; -1 until a cycle of this process begins at counter 0
StreakAfter(h, healthy) == IF h < 0 THEN h ELSE IF healthy THEN h + 1 ELSE 0

----------------------------------------------------------------------------
(* The process *)

Init ==
    /\ pc = "boot"
    /\ cfg \in Envs
    /\ deployment_state = CleanState
    /\ config_cache = EmptyBundle
    /\ consecutive_healthy_cycles = 0
    /\ is_disabled = FALSE
    /\ file = FileAbsent
    /\ db = DbInitial
    /\ droplets = <<>>
    /\ cyc = CycNone
    /\ streak = -1
    /\ call = NoCall

\* run_monitoring_loop before the loop: sleep for ever when IS_ACTIVE is false,
\* otherwise load_state
Boot ==
    /\ pc = "boot"
    /\ IF ~cfg.IS_ACTIVE
       THEN /\ pc' = "inactive"
            /\ UNCHANGED mem
       ELSE LET s == load_state(file, StateRecord(deployment_state, config_cache,
                                                  consecutive_healthy_cycles, is_disabled))
            IN  /\ pc' = "loop"
                /\ deployment_state' = s.deployment_state
                /\ config_cache' = s.config_cache
                /\ consecutive_healthy_cycles' = s.consecutive_healthy_cycles
                /\ is_disabled' = s.is_disabled
    /\ UNCHANGED <<cfg, call, file, db, droplets, cyc, streak>>

\* head of the while loop: a disabled controller idles for ever
EnterIdle ==
    /\ pc = "loop"
    /\ loop_branch(is_disabled) = "idle"
    /\ pc' = "idle"
    /\ UNCHANGED <<cfg, call, mem, file, db, droplets, cyc, streak>>

\* a cycle begins: the streak is counted from the last cycle that began at 0
StreakAtStart == IF consecutive_healthy_cycles = 0 THEN 0 ELSE streak

\* a cycle whose validate_environment fails: _run_monitoring_cycle is skipped
CycleInvalid ==
    /\ pc = "loop"
    /\ loop_branch(is_disabled) = "validate"
    /\ consecutive_healthy_cycles < MaxCycles
    /\ after_validation(validate(cfg)) # "cycle"
    /\ pc' = after_validation(validate(cfg))
    /\ cyc' = [CycNone EXCEPT !.kind = "invalid"]
    /\ streak' = StreakAfter(StreakAtStart, FALSE)
    /\ UNCHANGED <<cfg, call, mem, file, db, droplets>>

\* what the platform, the database and the provider may answer in one cycle
ExtractInputs ==
    [up : BOOLEAN, manual : {NoToken, LogToken}, logs : {<<>>, <<LogToken>>},
     webapp : WebappVars]

PostgresInputs ==
    [connOK : BOOLEAN, errs : ReadErrs, refused : {"none", "wal", "ident", "pub"},
     raced : BOOLEAN, restart : RestartOutcomes]

\* what CREATE PUBLICATION meets under the answers i
pub_try(i) == IF i.raced THEN "raced" ELSE IF i.refused = "pub" THEN "refused" ELSE "ok"

SupervisorInputs ==
    [list1 : BOOLEAN, loadOK : BOOLEAN, list2 : BOOLEAN, list3 : BOOLEAN,
     createOK : BOOLEAN, ready : BOOLEAN, health : HealthOutcomes]

\* an extraction step that marks the configuration extracted whatever came back
extract_step_flagging_failure(ds, cache, i) ==
    IF needs_extraction(ds, cache)
    THEN LET config == extract_configuration(cache, i.up, i.manual, i.logs,
                                             i.webapp.secret, i.webapp.url)
         IN  [ok |-> config # EmptyBundle, ds |-> [ds EXCEPT !.config_extracted = TRUE],
              cache |-> IF config = EmptyBundle THEN cache ELSE config]
    ELSE [ok |-> TRUE, ds |-> ds, cache |-> cache]

\* _run_monitoring_cycle, step 1: extraction when needed; ok false is the early return
extract_step(ds, cache, i) ==
    IF needs_extraction(ds, cache)
    THEN LET config == extract_configuration(cache, i.up, i.manual, i.logs,
                                             i.webapp.secret, i.webapp.url)
         IN  IF config = EmptyBundle
             THEN [ok |-> FALSE, ds |-> ds, cache |-> cache]
             ELSE [ok |-> TRUE, ds |-> [ds EXCEPT !.config_extracted = TRUE],
                   cache |-> config]
    ELSE [ok |-> TRUE, ds |-> ds, cache |-> cache]

\* _run_monitoring_cycle, step 2: configure when the flag is unset, re-check when set
postgres_step(flag, d, i) ==
    IF ~flag
    THEN LET r == configure_postgres(d, i.connOK, i.errs, i.refused # "wal",
                                     i.refused # "ident", pub_try(i), i.restart)
         IN  [db |-> r.db, flag |-> r.ok, path |-> r.path, converged |-> r.converged]
    ELSE LET r == postgres_recheck(d, i.connOK, i.errs)
         IN  [db |-> d, flag |-> r.flag, path |-> r.path, converged |-> FALSE]

\* _run_monitoring_cycle, step 3: deploy when the flag is unset, re-check when set
supervisor_step(flag, ds, cache, i) ==
    IF ~flag
    THEN LET r == deploy_supervisor(ds, cache, i.list1, i.loadOK, i.list2, i.list3,
                                    i.createOK, i.ready, i.health)
         IN  [droplets |-> r.droplets, flag |-> r.ok, path |-> r.path]
    ELSE LET r == supervisor_recheck(ds, i.list1, i.loadOK, i.health)
         IN  [droplets |-> ds, flag |-> r.flag, path |-> r.path]

\* _run_monitoring_cycle: extraction, database, supervisor, evaluation, under
\* the answers EI of the platform, PI of the database and SI of the provider
Cycle(EI, PI, SI) ==
    /\ pc = "loop"
    /\ loop_branch(is_disabled) = "validate"
    /\ consecutive_healthy_cycles < MaxCycles
    /\ after_validation(validate(cfg)) = "cycle"
    /\ deployment_state # NoneState
    /\ pc' = loop_except("none")
    /\ \E e \in {extract_step(deployment_state, config_cache, i) : i \in EI} :
         IF ~e.ok
         THEN /\ deployment_state' = e.ds
              /\ config_cache' = e.cache
              /\ cyc' = [CycNone EXCEPT !.kind = "noextract"]
              /\ streak' = StreakAfter(StreakAtStart, FALSE)
              /\ UNCHANGED <<consecutive_healthy_cycles, is_disabled, db, droplets>>
         ELSE \E p \in {postgres_step(e.ds.postgres_configured, db, i) : i \in PI},
                 s3 \in {supervisor_step(e.ds.supervisor_deployed, droplets, e.cache, i) :
                            i \in SI} :
                LET s == IF after_postgres_step(p.flag) = "supervisor" THEN s3
                         ELSE [droplets |-> droplets, flag |-> e.ds.supervisor_deployed,
                               path |-> "none"]
                    ds3 == [e.ds EXCEPT !.postgres_configured = p.flag,
                                        !.supervisor_deployed = s.flag]
                    healthy == is_fully_healthy(ds3)
                    n == next_counter(healthy, consecutive_healthy_cycles)
                IN  /\ config_cache' = e.cache
                    /\ db' = p.db
                    /\ droplets' = s.droplets
                    /\ deployment_state' = ds3
                    /\ consecutive_healthy_cycles' = n
                    /\ is_disabled' = IF auto_disable(cfg, healthy, n) THEN TRUE
                                      ELSE is_disabled
                    /\ streak' = StreakAfter(StreakAtStart, healthy)
                    /\ cyc' = [CycNone EXCEPT !.kind = "evaluated", !.pg = p.path,
                                          !.sv = s.path, !.converged = p.converged]
    /\ UNCHANGED <<cfg, call, file>>

\* a cycle under whatever the platform, the database and the provider answer
RunCycle == Cycle(ExtractInputs, PostgresInputs, SupervisorInputs)

\* an iteration whose _run_monitoring_cycle raises at its first
\* deployment_state.get: the exception escapes to the loop's handler and the
\* rest of the iteration, save_state included, is skipped
CycleRaises ==
    /\ pc = "loop"
    /\ loop_branch(is_disabled) = "validate"
    /\ after_validation(validate(cfg)) = "cycle"
    /\ deployment_state = NoneState
    /\ pc' = loop_except("Exception")
    /\ cyc' = [CycNone EXCEPT !.kind = "raised", !.exc = "Exception"]
    /\ streak' = StreakAfter(StreakAtStart, FALSE)
    /\ UNCHANGED <<cfg, call, mem, file, db, droplets>>

\* the handler's sleep of one full interval, then the next iteration
Backoff ==
    /\ pc = "backoff"
    /\ pc' = "loop"
    /\ cyc' = CycNone
    /\ UNCHANGED <<cfg, call, mem, file, db, droplets, streak>>

\* save_state: open(filename, 'w') truncates the file
SaveOpen ==
    /\ pc = "save"
    /\ pc' = "write"
    /\ file' = FileTorn
    /\ cyc' = [CycNone EXCEPT !.save = "open"]
    /\ UNCHANGED <<cfg, call, mem, db, droplets, streak>>

\* save_state: json.dump writes the record; when it raises part-way (a full
\* disk), the exception is logged and the loop goes on
SaveWrite ==
    /\ pc = "write"
    /\ pc' = "sleep"
    /\ \E dumpOK \in BOOLEAN :
         IF dumpOK
         THEN /\ file' = FileOf(StateRecord(deployment_state, config_cache,
                                            consecutive_healthy_cycles, is_disabled))
              /\ cyc' = [cyc EXCEPT !.save = "ok"]
         ELSE /\ cyc' = [cyc EXCEPT !.save = "failed"]
              /\ UNCHANGED file
    /\ UNCHANGED <<cfg, call, mem, db, droplets, streak>>

\* the sleep that ends the iteration
Sleep ==
    /\ pc = "sleep"
    /\ pc' = "loop"
    /\ cyc' = CycNone
    /\ UNCHANGED <<cfg, call, mem, file, db, droplets, streak>>

\* KeyboardInterrupt, raised wherever the process is: the loop breaks and the
\* process, with its memory, ends
Interrupt ==
    /\ pc # "stopped"
    /\ pc' = loop_except("KeyboardInterrupt")
    /\ deployment_state' = CleanState
    /\ config_cache' = EmptyBundle
    /\ consecutive_healthy_cycles' = 0
    /\ is_disabled' = FALSE
    /\ cyc' = CycNone
    /\ streak' = -1
    /\ UNCHANGED <<cfg, call, file, db, droplets>>

\* a new process: Config is read from the environment, OpsController.__init__
Start ==
    /\ pc = "stopped"
    /\ pc' = "boot"
    /\ cfg' \in Envs
    /\ UNCHANGED <<call, mem, file, db, droplets, cyc, streak>>

----------------------------------------------------------------------------
(* The world outside the process, between cycles or while no process runs *)

Quiet == pc \in {"loop", "stopped"}

\* the database is reconfigured out of band, or restarted
DbDrift ==
    /\ Quiet
    /\ \/ db' = [db EXCEPT !.pub = FALSE]
       \/ db' = [db EXCEPT !.ident = "default"]
       \/ db' = [db EXCEPT !.wal = "replica", !.walConf = "replica"]
       \/ db' = Restarted(db)
    /\ db' # db
    /\ UNCHANGED <<pc, cfg, call, mem, file, droplets, cyc, streak>>

\* the state file is replaced, while no process runs, by a JSON object whose
\* "deployment_state" is null; load_state accepts it
FileReplaced ==
    /\ pc = "stopped"
    /\ file' = FileOf(StateRecord(NoneState, EmptyBundle, 0, FALSE))
    /\ file' # file
    /\ UNCHANGED <<pc, cfg, call, mem, db, droplets, cyc, streak>>

RemoveAt(s, i) == [j \in 1..(Len(s) - 1) |-> IF j < i THEN s[j] ELSE s[j + 1]]

\* the provider assigns an address to a droplet, or a droplet is destroyed
DropletDrift ==
    /\ Quiet
    /\ \E i \in 1..Len(droplets) :
         \/ /\ ~droplets[i].ip
            /\ droplets' = [droplets EXCEPT ![i].ip = TRUE]
         \/ droplets' = RemoveAt(droplets, i)
    /\ UNCHANGED <<pc, cfg, call, mem, file, db, cyc, streak>>

Next ==
    \/ Boot
    \/ EnterIdle
    \/ CycleInvalid
    \/ RunCycle
    \/ CycleRaises
    \/ Backoff
    \/ SaveOpen
    \/ SaveWrite
    \/ Sleep
    \/ Interrupt
    \/ Start
    \/ DbDrift
    \/ DropletDrift
    \/ FileReplaced

Spec == Init /\ [][Next]_vars

----------------------------------------------------------------------------
(* One process from the clean initial state: the constructor's values and no
   state file; the process is not interrupted *)

CleanNext ==
    \/ Boot
    \/ EnterIdle
    \/ CycleInvalid
    \/ RunCycle
    \/ SaveOpen
    \/ SaveWrite
    \/ Sleep
    \/ DbDrift
    \/ DropletDrift

CleanSpec == Init /\ [][CleanNext]_vars

----------------------------------------------------------------------------
(* One process whose externals are cooperative from some point on: the platform
   yields the token, the shared secret and the API origin, the database accepts
   every statement and the restart takes effect, the provider lists, creates and
   readies droplets and the health endpoint answers 200 *)

CoopExtractInputs ==
    {i \in ExtractInputs :
        /\ i.up /\ (i.manual # NoToken \/ i.logs # <<>>)
        /\ i.webapp.secret /\ i.webapp.url}

CoopPostgresInputs ==
    {i \in PostgresInputs :
        /\ i.connOK /\ i.errs = {} /\ i.refused = "none"
        /\ i.restart \in {"ok", "ok_lost"}}

CoopSupervisorInputs ==
    {i \in SupervisorInputs :
        /\ i.list1 /\ i.loadOK /\ i.list2 /\ i.list3 /\ i.createOK /\ i.ready
        /\ i.health = "200"}

\* marks the point from which the externals are cooperative
Cooperative == [op |-> "cooperative"]

CoopInit == Init /\ validate(cfg) /\ cfg.IS_ACTIVE

\* a cycle before that point
FreeCycle == call = NoCall /\ RunCycle

\* the externals become cooperative, between two cycles, while the deployment
\* has not converged
BeginCooperation ==
    /\ pc = "loop"
    /\ call = NoCall
    /\ ~is_disabled
    /\ ~is_fully_healthy(deployment_state)
    /\ call' = Cooperative
    /\ UNCHANGED <<pc, cfg, mem, file, db, droplets, cyc, streak>>

\* a cycle after that point
CoopCycle ==
    /\ call = Cooperative
    /\ Cycle(CoopExtractInputs, CoopPostgresInputs, CoopSupervisorInputs)

CoopNext ==
    \/ Boot
    \/ EnterIdle
    \/ FreeCycle
    \/ BeginCooperation
    \/ CoopCycle
    \/ SaveOpen
    \/ SaveWrite
    \/ Sleep

\* the guard of CoopCycle
CoopCycleDue ==
    /\ call = Cooperative
    /\ pc = "loop"
    /\ loop_branch(is_disabled) = "validate"
    /\ consecutive_healthy_cycles < MaxCycles

\* the loop goes on: no step of it waits for ever.  A step of CoopCycle ends
\* CoopCycleDue, so the last conjunct is the weak fairness of CoopCycle, written
\* with its guard.
CoopSpec ==
    /\ CoopInit /\ [][CoopNext]_vars
    /\ WF_vars(Boot \/ EnterIdle \/ SaveOpen \/ SaveWrite \/ Sleep)
    /\ []<>(~CoopCycleDue)

----------------------------------------------------------------------------
(* Single calls: one operation applied once to arguments drawn from its domain *)

SeqsUpTo(S, n) == UNION {[1..k -> S] : k \in 0..n}

ManualToken == "tr_wgt_m"
CachedToken == "tr_wgt_c"

TokenCalls ==
    [op : {"extract_worker_token"}, manual : {NoToken, ManualToken},
     cached_token : {NoToken, CachedToken}, logs : SeqsUpTo(LogWords, MaxLogWords),
     done : {FALSE}, result : {[token |-> NoToken, fetched |-> FALSE]}]

\* what the server may hold when the status is read, and the reads that may fail
CallDbStates ==
    [wal : {"minimal", "replica", "logical"}, walConf : {"logical"},
     ident : {"default", "nothing", "full", "index", "not_found"}, pub : BOOLEAN]

AllReadErrs == SUBSET {"wal", "ident", "pub"}

StatusCalls ==
    [op : {"is_replication_configured"}, db : CallDbStates, errs : AllReadErrs,
     done : {FALSE}, result : {[ok |-> FALSE, issues |-> <<>>]}]

NoOutcome == [db |-> DbInitial, result |-> "none", issued |-> {},
              restart_requested |-> FALSE, trace |-> <<>>]

\* configure_replication, then once more: first and second are the outcomes,
\* errs2 the reads that fail in the second call
ConfigureCalls ==
    [op : {"configure_replication"}, db : DbStates, errs : ReadErrs,
     walOK : BOOLEAN, identOK : BOOLEAN, pubTry : PubTries, restart : RestartOutcomes,
     done : {FALSE}, again : {FALSE}, first : {NoOutcome}, errs2 : {{}},
     second : {NoOutcome}]

\* create_droplet on an account that holds some tagged droplets
DropletCalls ==
    [op : {"create_droplet"},
     droplets : SeqsUpTo({[ip |-> FALSE], [ip |-> TRUE]}, MaxDroplets),
     listOK : BOOLEAN, createOK : BOOLEAN, done : {FALSE},
     result : {[droplets |-> <<>>, created |-> FALSE]}]

\* destroy_droplet on an account that holds some tagged droplets
DestroyCalls ==
    [op : {"destroy_droplet"},
     droplets : SeqsUpTo({[ip |-> FALSE], [ip |-> TRUE]}, MaxDroplets),
     listOK : BOOLEAN, destroyOK : [1..MaxDroplets -> BOOLEAN], done : {FALSE},
     result : {[droplets |-> <<>>, attempted |-> {}, result |-> TRUE]}]

\* the timeouts wait_for_droplet_ready is called with: none, and up to MaxPolls
\* intervals, whole or one second short
Timeouts ==
    {0} \cup {PollInterval * k : k \in 1..MaxPolls}
        \cup {PollInterval * k - 1 : k \in 1..MaxPolls}

WaitCalls ==
    [op : {"wait_for_droplet_ready"}, timeout : Timeouts, elapsed : {0}, polls : {0},
     last : {[raised |-> FALSE, status |-> "new", ip |-> FALSE]}, seen_ip : {FALSE},
     done : {FALSE}, result : {FALSE}]

\* the droplets of the account: of this deployment, of another environment, or
\* of neither
ProviderDroplets ==
    [id : 1..MaxDroplets,
     tags : {{}, {CommonTag}, {SupervisorTag, CommonTag}, {OtherEnvTag, CommonTag}}]

\* get_existing_droplets, then once more, on the same droplets
ListCalls ==
    [op : {"get_existing_droplets"}, all : SeqsUpTo(ProviderDroplets, MaxDroplets),
     listOK1 : BOOLEAN, listOK2 : BOOLEAN, done : {FALSE}, first : {<<>>},
     second : {<<>>}]

\* run_check_status by a new controller, on the server, the droplets and the
\* state file it finds
CheckCalls ==
    [op : {"run_check_status"}, connOK : BOOLEAN, errs : ReadErrs, listOK : BOOLEAN,
     loadOK : BOOLEAN, done : {FALSE},
     result : {[issued |-> {}, postgres |-> "none", supervisor |-> "none",
                returned |-> "none"]}]

\* what a controller may hold when it saves its state
SavedStates ==
    [deployment_state : [config_extracted : BOOLEAN, postgres_configured : BOOLEAN,
                         supervisor_deployed : BOOLEAN],
     config_cache : {EmptyBundle} \cup {b \in Bundles : b.TRIGGER_WORKER_TOKEN # NoToken},
     consecutive_healthy_cycles : 0..MaxCycles,
     is_disabled : BOOLEAN]

\* save_state by a controller holding saved, then load_state by the controller
\* of the next process.  write: save_state is never called and the file stays
\* absent, it writes the whole text, or json.dump raises part-way
RestartCalls ==
    [op : {"load_state"}, saved : SavedStates, write : {"never", "whole", "torn"},
     step : {"save"}]

\* deploy_supervisor of the manager, on an account that holds some tagged
\* droplets, with a bundle of any completeness
DeployCalls ==
    [op : {"deploy_supervisor"},
     droplets : SeqsUpTo({[ip |-> FALSE], [ip |-> TRUE]}, MaxDroplets),
     config : Bundles, list2 : BOOLEAN, list3 : BOOLEAN, createOK : BOOLEAN,
     ready : BOOLEAN, health : HealthOutcomes, done : {FALSE},
     result : {[droplets |-> <<>>, ok |-> FALSE, path |-> "none", stages |-> <<>>]}]

\* test_supervisor_health with max_attempts from 0 on, against an endpoint whose
\* answers may change from one request to the next
HealthCalls ==
    [op : {"test_supervisor_health"}, max_attempts : 0..MaxAttempts,
     answers : [1..MaxAttempts -> HealthAnswers], done : {FALSE},
     result : {[result |-> FALSE, requests |-> 0]}]

\* 'with PostgresConfigurator() as pg', MaxUses times in a row by one process.
\* abandoned counts the connections still open whose configurator is gone
ScopedCalls ==
    [op : {"with_configurator"}, use : {1}, step : {"enter"}, handles : {NoHandles},
     abandoned : {0}, body : {"none"}, raised : {FALSE}]

\* the intervals Config.validate accepts, in minutes, and what a cycle may have
\* taken, in seconds: nothing, and a second less than, exactly, or a second more
\* than an interval
Intervals == {1, 2, 60}

Durations == {0} \cup UNION {{(60 * m) - 1, 60 * m, (60 * m) + 1} : m \in Intervals}

\* the end of an iteration of the loop, after save_state
SleepCalls ==
    [op : {"sleep_time"}, check_interval : Intervals, cycle_duration : Durations,
     done : {FALSE}, result : {[sleep_time |-> 0, then |-> "none"]}]

\* project and environment ids: environment ids of eight characters and longer
\* ones, alike or not in their first eight, and the unset id
ProjectIds == {<<"p">>, <<"q">>}

EnvironmentIds ==
    {<<>>,
     <<"0", "1", "2", "3", "4", "5", "6", "7">>,
     <<"0", "1", "2", "3", "4", "5", "6", "7", "a">>,
     <<"0", "1", "2", "3", "4", "5", "6", "7", "b">>,
     <<"0", "1", "2", "3", "4", "5", "6", "8", "a">>}

Identities == [project : ProjectIds, environment : EnvironmentIds]

\* get_supervisor_tag under one identity, twice, and under another
TagCalls ==
    [op : {"get_supervisor_tag"}, one : Identities, other : Identities, done : {FALSE},
     tag : {<<>>}, tag_again : {<<>>}, tag_other : {<<>>}]

\* OpsController.deploy_supervisor, the deploy branch of the compute step, with
\* a cached bundle of any completeness
ComputeCalls ==
    [op : {"compute_step"},
     droplets : SeqsUpTo({[ip |-> FALSE], [ip |-> TRUE]}, MaxDroplets),
     cache : Bundles, list1 : BOOLEAN, loadOK : BOOLEAN, list2 : BOOLEAN, list3 : BOOLEAN,
     createOK : BOOLEAN, ready : BOOLEAN, health : HealthOutcomes, done : {FALSE},
     result : {[droplets |-> <<>>, flag |-> FALSE, path |-> "none"]}]

Calls == TokenCalls \cup StatusCalls \cup ConfigureCalls \cup DropletCalls
         \cup DestroyCalls \cup WaitCalls \cup ListCalls \cup CheckCalls
         \cup RestartCalls \cup DeployCalls \cup HealthCalls \cup ScopedCalls
         \cup SleepCalls \cup TagCalls \cup ComputeCalls

CallInit ==
    /\ pc = "call"
    /\ cfg = DefaultEnv
    /\ deployment_state = CleanState
    /\ config_cache = EmptyBundle
    /\ consecutive_healthy_cycles = 0
    /\ is_disabled = FALSE
    /\ cyc = CycNone
    /\ streak = -1
    /\ call \in Calls
    /\ IF call.op = "run_check_status"
       THEN /\ file \in {FileAbsent,
                          FileOf(StateRecord([CleanState EXCEPT !.config_extracted = TRUE],
                                             [EmptyBundle EXCEPT
                                                 !.TRIGGER_WORKER_TOKEN = LogToken],
                                             0, FALSE))}
            /\ db \in DbStates
            /\ droplets \in SeqsUpTo({[ip |-> FALSE], [ip |-> TRUE]}, MaxDroplets)
       ELSE /\ file = FileAbsent
            /\ db = DbInitial
            /\ droplets = <<>>

CallFrame == UNCHANGED <<pc, cfg, mem, file, db, droplets, cyc, streak>>

CallExtractWorkerToken ==
    /\ call.op = "extract_worker_token" /\ ~call.done
    /\ call' = [call EXCEPT !.done = TRUE,
                            !.result = extract_worker_token(call.manual, call.cached_token,
                                                            call.logs)]
    /\ CallFrame

CallIsReplicationConfigured ==
    /\ call.op = "is_replication_configured" /\ ~call.done
    /\ call' = [call EXCEPT !.done = TRUE,
                            !.result = [ok |-> is_replication_configured(call.db, call.errs),
                                        issues |-> replication_issues(call.db, call.errs)]]
    /\ CallFrame

CallConfigureReplication ==
    /\ call.op = "configure_replication" /\ ~call.done
    /\ call' = [call EXCEPT !.done = TRUE,
                            !.first = configure_replication(call.db, call.errs, call.walOK,
                                                            call.identOK, call.pubTry,
                                                            call.restart)]
    /\ CallFrame

\* the second call in a row, on the database the first one left
CallConfigureReplicationAgain ==
    /\ call.op = "configure_replication" /\ call.done /\ ~call.again
    /\ call.first.result # "raised"
    /\ \E errs2 \in ReadErrs, walOK \in BOOLEAN, identOK \in BOOLEAN, pubTry \in PubTries,
          restart \in RestartOutcomes :
         call' = [call EXCEPT !.again = TRUE, !.errs2 = errs2,
                              !.second = configure_replication(call.first.db, errs2, walOK,
                                                               identOK, pubTry, restart)]
    /\ CallFrame

CallCreateDroplet ==
    /\ call.op = "create_droplet" /\ ~call.done
    /\ call' = [call EXCEPT !.done = TRUE,
                            !.result = create_droplet(call.droplets, call.listOK,
                                                      call.createOK)]
    /\ CallFrame

CallDestroyDroplet ==
    /\ call.op = "destroy_droplet" /\ ~call.done
    /\ call' = [call EXCEPT !.done = TRUE,
                            !.result = destroy_droplet(call.droplets, call.listOK,
                                                       call.destroyOK)]
    /\ CallFrame

\* one passage through the loop of wait_for_droplet_ready
CallWaitForDropletReady ==
    /\ call.op = "wait_for_droplet_ready" /\ ~call.done
    /\ \E p \in PollResults, d \in LoadTimes : call' = wait_for_droplet_ready(call, p, d)
    /\ CallFrame

CallGetExistingDroplets ==
    /\ call.op = "get_existing_droplets" /\ ~call.done
    /\ call' = [call EXCEPT
                  !.done = TRUE,
                  !.first = get_existing_droplets(tagged_droplets(call.all), call.listOK1),
                  !.second = get_existing_droplets(tagged_droplets(call.all), call.listOK2)]
    /\ CallFrame

\* run_check_status assigns no attribute of the controller and never calls
\* save_state
CallRunCheckStatus ==
    /\ call.op = "run_check_status" /\ ~call.done
    /\ LET r == run_check_status(db, droplets, call.connOK, call.errs, call.listOK,
                                  call.loadOK)
       IN  /\ db' = r.db
           /\ droplets' = r.droplets
           /\ call' = [call EXCEPT !.done = TRUE,
                                   !.result = [issued |-> r.issued, postgres |-> r.postgres,
                                               supervisor |-> r.supervisor,
                                               returned |-> r.returned]]
    /\ UNCHANGED <<pc, cfg, mem, file, cyc, streak>>

\* save_state of the first process, which then ends
CallSaveState ==
    /\ call.op = "load_state" /\ call.step = "save"
    /\ file' = IF call.write = "whole" THEN FileOf(call.saved)
               ELSE IF call.write = "torn" THEN FileTorn
               ELSE file
    /\ call' = [call EXCEPT !.step = "load"]
    /\ UNCHANGED <<pc, cfg, mem, db, droplets, cyc, streak>>

\* OpsController.__init__ and load_state of the next process
CallLoadState ==
    /\ call.op = "load_state" /\ call.step = "load"
    /\ LET s == load_state(file, NoRecord)
       IN  /\ deployment_state' = s.deployment_state
           /\ config_cache' = s.config_cache
           /\ consecutive_healthy_cycles' = s.consecutive_healthy_cycles
           /\ is_disabled' = s.is_disabled
    /\ call' = [call EXCEPT !.step = "done"]
    /\ UNCHANGED <<pc, cfg, file, db, droplets, cyc, streak>>

CallDeploySupervisor ==
    /\ call.op = "deploy_supervisor" /\ ~call.done
    /\ call' = [call EXCEPT !.done = TRUE,
                            !.result = do_deploy_supervisor(call.droplets, call.config,
                                                            call.list2, call.list3,
                                                            call.createOK, call.ready,
                                                            call.health)]
    /\ CallFrame

CallTestSupervisorHealth ==
    /\ call.op = "test_supervisor_health" /\ ~call.done
    /\ call' = [call EXCEPT !.done = TRUE,
                            !.result = test_supervisor_health(call.answers,
                                                              call.max_attempts)]
    /\ CallFrame

\* __enter__: connect(); when it raises, the with statement ends without
\* calling __exit__
CallConfiguratorEnter ==
    /\ call.op = "with_configurator" /\ call.step = "enter"
    /\ \E outcome \in ConnectOutcomes :
         LET c == connect(outcome) IN
         call' = [call EXCEPT !.handles = c.handles, !.raised = c.raised,
                              !.step = IF c.raised THEN "after" ELSE "body"]
    /\ CallFrame

\* the block: it ends by falling off its end, by a return, or by an exception
CallConfiguratorBody ==
    /\ call.op = "with_configurator" /\ call.step = "body"
    /\ \E outcome \in BodyOutcomes :
         call' = [call EXCEPT !.body = outcome, !.raised = outcome = "exception",
                              !.step = "exit"]
    /\ CallFrame

\* __exit__: close(), however the block ended
CallConfiguratorExit ==
    /\ call.op = "with_configurator" /\ call.step = "exit"
    /\ call' = [call EXCEPT !.handles = close(call.handles), !.step = "after"]
    /\ CallFrame

\* the next use constructs a new PostgresConfigurator; the handles of the last
\* one are out of the program's reach
CallConfiguratorAgain ==
    /\ call.op = "with_configurator" /\ call.step = "after"
    /\ call.use < MaxUses
    /\ call' = [call EXCEPT !.use = @ + 1, !.step = "enter", !.handles = NoHandles,
                            !.body = "none", !.raised = FALSE,
                            !.abandoned = @ + (IF call.handles.connection = "open"
                                               THEN 1 ELSE 0)]
    /\ CallFrame

\* the interpreter finalizes a configurator that is out of reach, which closes
\* its connection: at once, later, or not before the process ends
CallConfiguratorCollected ==
    /\ call.op = "with_configurator"
    /\ \/ /\ call.step = "after" /\ call.handles.connection = "open"
          /\ call' = [call EXCEPT !.handles = close(call.handles)]
       \/ /\ call.abandoned > 0
          /\ call' = [call EXCEPT !.abandoned = @ - 1]
    /\ CallFrame

CallSleepTime ==
    /\ call.op = "sleep_time" /\ ~call.done
    /\ LET t == sleep_time(call.check_interval, call.cycle_duration) IN
       call' = [call EXCEPT !.done = TRUE,
                            !.result = [sleep_time |-> t, then |-> after_cycle(t)]]
    /\ CallFrame

CallGetSupervisorTag ==
    /\ call.op = "get_supervisor_tag" /\ ~call.done
    /\ call' = [call EXCEPT
                  !.done = TRUE,
                  !.tag = get_supervisor_tag(call.one.project, call.one.environment),
                  !.tag_again = get_supervisor_tag(call.one.project, call.one.environment),
                  !.tag_other = get_supervisor_tag(call.other.project,
                                                   call.other.environment)]
    /\ CallFrame

\* step 3 of a cycle that finds supervisor_deployed unset
CallComputeStep ==
    /\ call.op = "compute_step" /\ ~call.done
    /\ call' = [call EXCEPT !.done = TRUE,
                            !.result = supervisor_step(FALSE, call.droplets, call.cache,
                                                       call)]
    /\ CallFrame

CallNext ==
    \/ CallCreateDroplet
    \/ CallComputeStep
    \/ CallGetSupervisorTag
    \/ CallSleepTime
    \/ CallConfiguratorEnter
    \/ CallConfiguratorBody
    \/ CallConfiguratorExit
    \/ CallConfiguratorAgain
    \/ CallConfiguratorCollected
    \/ CallDeploySupervisor
    \/ CallTestSupervisorHealth
    \/ CallSaveState
    \/ CallLoadState
    \/ CallRunCheckStatus
    \/ CallGetExistingDroplets
    \/ CallDestroyDroplet
    \/ CallWaitForDropletReady
    \/ CallExtractWorkerToken
    \/ CallIsReplicationConfigured
    \/ CallConfigureReplication
    \/ CallConfigureReplicationAgain

\* a call that has begun goes on until it returns
CallSpec == CallInit /\ [][CallNext]_vars /\ WF_vars(CallNext)

----------------------------------------------------------------------------
(* Properties *)

CycleEnded == pc = "save"

ConfigurePaths == {"configure_exc", "configure_already", "configure_ok", "configure_fail"}

DeployPaths == {"deploy_no_config", "deploy_exc", "deploy_existing", "deploy_missing_keys",
                "deploy_verified", "deploy_unhealthy", "deploy_not_created",
                "deploy_timeout"}

FileMatchesMemory ==
    /\ file.state = "whole"
    /\ file.record = json_dump(StateRecord(deployment_state, config_cache,
                                           consecutive_healthy_cycles, is_disabled))

\* C1: at most one droplet carries the deployment's tag, whatever the sequence of
\* cycles, listing failures and droplets without an address.
C1_AtMostOneTaggedDroplet == Len(droplets) <= 1

\* C2: in a process whose cycles began at counter 0, with threshold N >= 1 and
\* AUTO_DISABLE set the controller is disabled exactly when N fully healthy cycles
\* in a row have ended, and not before; with AUTO_DISABLE unset it is never disabled.
C2_DisabledExactlyAtThreshold ==
    streak >= 0 =>
        IF cfg.AUTO_DISABLE
        THEN is_disabled <=> streak >= cfg.HEALTHY_CYCLES_BEFORE_DISABLE
        ELSE ~is_disabled

C2_Witness ==
    /\ pc = "idle"
    /\ cfg.AUTO_DISABLE
    /\ cfg.HEALTHY_CYCLES_BEFORE_DISABLE = 2
    /\ streak = 2
    /\ is_disabled

\* C3: every cycle that is not fully healthy (aborted by validation, ended early
\* by a failed extraction, or evaluated with a flag unset) ends with the counter at 0.
C3_UnhealthyCycleResetsCounter ==
    (CycleEnded /\ ~(cyc.kind = "evaluated" /\ is_fully_healthy(deployment_state)))
        => consecutive_healthy_cycles = 0

\* C4: once the controller is disabled at a cycle boundary, it stays disabled for
\* the rest of the process, never runs a cycle or a save again, and leaves the
\* flags, the cache, the counter and the state file as they are; once idle, it
\* does nothing until it is interrupted.
C4_DisabledIsFinal ==
    [][(is_disabled /\ pc \in {"sleep", "loop", "idle"} /\ pc' # "stopped")
          => /\ is_disabled'
             /\ pc' \in {"loop", "idle"}
             /\ UNCHANGED <<deployment_state, config_cache, consecutive_healthy_cycles, file>>
             /\ (pc = "idle" => UNCHANGED vars)]_vars

C4_Witness ==
    /\ pc = "idle"
    /\ is_disabled
    /\ consecutive_healthy_cycles >= cfg.HEALTHY_CYCLES_BEFORE_DISABLE
    /\ FileMatchesMemory

\* C5 as stated: a cycle whose re-check finds the database not configured also
\* re-runs convergence in that same cycle.
C5_RecheckRerunsConvergence ==
    (CycleEnded /\ cyc.pg = "recheck_bad") => cyc.converged

\* C5 as amended: a cycle that begins with postgres_configured set and whose
\* re-check finds the database not fully configured unsets the flag, changes
\* nothing in the database and is not counted as healthy; convergence runs in a
\* cycle that reaches the database step with the flag unset.
C5_RecheckDowngradesFlag ==
    [][(pc = "loop" /\ pc' = "save" /\ cyc'.kind = "evaluated")
          => /\ (/\ deployment_state.postgres_configured
                 /\ ~is_replication_configured(db, {})
                 /\ cyc'.pg # "recheck_exc")
                   => /\ ~deployment_state'.postgres_configured
                      /\ db' = db
                      /\ ~cyc'.converged
                      /\ consecutive_healthy_cycles' = 0
             /\ ~deployment_state.postgres_configured => cyc'.pg \in ConfigurePaths]_vars

C5_Witness ==
    /\ CycleEnded
    /\ cyc.pg = "recheck_bad"
    /\ ~db.pub
    /\ ~deployment_state.postgres_configured
    /\ consecutive_healthy_cycles = 0

\* C6: a cycle that begins with supervisor_deployed set and whose health re-check
\* fails (no droplet, no address, endpoint unreachable, status other than success)
\* ends with supervisor_deployed unset.
C6_FailedHealthRecheckDowngrades ==
    (CycleEnded /\ cyc.sv \in {"recheck_absent", "recheck_noip", "recheck_unreachable",
                               "recheck_http"})
        => ~deployment_state.supervisor_deployed

\* C7: at the end of a cycle that ran its steps a flag is set only if a check of
\* that cycle observed the database configured (the droplet healthy); a check
\* that raised leaves no flag set, and the cycle is not counted as healthy.
C7_FlagsRederivedEveryCycle ==
    (CycleEnded /\ cyc.kind = "evaluated")
        => /\ deployment_state.postgres_configured
                => cyc.pg \in {"configure_already", "configure_ok", "recheck_ok"}
           /\ deployment_state.supervisor_deployed
                => cyc.sv \in {"deploy_verified", "recheck_healthy"}
           /\ (cyc.pg = "recheck_exc" \/ cyc.sv = "recheck_exc")
                => consecutive_healthy_cycles = 0

\* C8: the deploy step sets supervisor_deployed only after the health endpoint
\* answered in that step, also when a tagged droplet already exists.
C8_DeployedOnlyAfterHealthCheck ==
    (CycleEnded /\ cyc.sv \in DeployPaths /\ deployment_state.supervisor_deployed)
        => cyc.sv = "deploy_verified"

C11_LoopEndsOnlyOnInterrupt ==
    [][/\ (cyc'.exc = "Exception" /\ cyc.exc = "none")
            => (pc' = "backoff" /\ UNCHANGED <<mem, file>>)
       /\ (pc = "backoff" /\ pc' # "stopped")
            => (pc' = "loop" /\ UNCHANGED <<mem, file>>)
       /\ (pc # "stopped" /\ pc' = "stopped")
            => (cyc' = CycNone /\ streak' = -1)]_vars

\* back at the head of the loop after an exception and the handler's sleep
C11_Witness ==
    /\ pc = "loop"
    /\ validate(cfg)
    /\ deployment_state = NoneState
    /\ streak = 0

\* C12: when validation fails, the iteration runs no extraction, database or
\* provisioning step, leaves the flags, the cached bundle, the database and the
\* droplets as they are, and goes on to save_state and the next iteration.
C12_InvalidCycleRunsNoStep ==
    [][(pc = "loop" /\ ~validate(cfg) /\ pc' \notin {"loop", "stopped", "idle"})
          => /\ pc' = "save"
             /\ cyc' = [CycNone EXCEPT !.kind = "invalid"]
             /\ UNCHANGED <<deployment_state, config_cache, db, droplets>>]_vars

\* a validation-aborted cycle of a process that loaded set flags
C12_Witness ==
    /\ pc = "save"
    /\ cyc.kind = "invalid"
    /\ deployment_state.config_extracted
    /\ deployment_state.postgres_configured
    /\ config_cache # EmptyBundle

\* C13: a cycle whose extraction yields the empty bundle (no token resolved, or
\* the platform call raised) ends before the database and compute steps with the
\* flags, the cached bundle, the counter, the database and the droplets as they
\* were, so extraction is still due in the next cycle; and a cycle that starts
\* with extraction due reaches the later steps only with a token cached.
C13_FailedExtractionEndsCycle ==
    [][/\ (pc = "loop" /\ cyc'.kind = "noextract")
            => /\ pc' = "save"
               /\ needs_extraction(deployment_state, config_cache)
               /\ cyc'.pg = "none" /\ cyc'.sv = "none"
               /\ UNCHANGED <<deployment_state, config_cache,
                              consecutive_healthy_cycles, db, droplets>>
               /\ needs_extraction(deployment_state', config_cache')
       /\ (pc = "loop" /\ cyc'.kind = "evaluated"
              /\ needs_extraction(deployment_state, config_cache))
            => /\ deployment_state'.config_extracted
               /\ config_cache'.TRIGGER_WORKER_TOKEN # NoToken]_vars

\* a second cycle in a row that ended early on a failed extraction
C13_Witness ==
    /\ pc = "save"
    /\ cyc.kind = "noextract"
    /\ file.state = "whole"
    /\ ~json_load(file.record).deployment_state.config_extracted
    /\ streak = 0

\* the last word of the logs that matches the pattern, by position
LastMatch(logs) ==
    LET hits == {i \in 1..Len(logs) : token_pattern(logs[i])} IN
    IF hits = {} THEN NoToken
    ELSE logs[CHOOSE i \in hits : \A k \in hits : k <= i]

\* C14: extract_worker_token returns the manual override whenever one is set;
\* without an override the cached token whenever one is given, in both cases
\* without fetching logs; with neither, the last match of the pattern in the
\* fetched logs, and none when nothing matches.
C14_TokenPriority ==
    (call.op = "extract_worker_token" /\ call.done) =>
        /\ call.manual # NoToken
             => (call.result.token = call.manual /\ ~call.result.fetched)
        /\ (call.manual = NoToken /\ call.cached_token # NoToken)
             => (call.result.token = call.cached_token /\ ~call.result.fetched)
        /\ (call.manual = NoToken /\ call.cached_token = NoToken)
             => (call.result.token = LastMatch(call.logs) /\ call.result.fetched)

\* two different matches in the logs, no override, no cache: the later one wins
C14_Witness ==
    /\ call.op = "extract_worker_token" /\ call.done
    /\ call.manual = NoToken /\ call.cached_token = NoToken
    /\ call.logs = <<LogToken, OtherToken>>
    /\ call.result.token = OtherToken

\* the conditions a status read finds unmet: what it read, or the value a failed
\* read is replaced by
Unmet(d, errs) ==
    {c \in {"wal_level", "replica_identity", "publication"} :
        \/ c = "wal_level" /\ ("wal" \in errs \/ d.wal # "logical")
        \/ c = "replica_identity" /\ ("ident" \in errs \/ d.ident # "full")
        \/ c = "publication" /\ ("pub" \in errs \/ ~d.pub)}

\* C15: is_replication_configured returns true iff the three reads find WAL level
\* logical, replica identity full and the publication present (with no failed
\* read: iff the database has them), and its explanation names every unmet
\* condition, each once.
C15_StatusNamesEveryUnmetCondition ==
    (call.op = "is_replication_configured" /\ call.done) =>
        /\ call.result.ok <=> Unmet(call.db, call.errs) = {}
        /\ call.errs = {} =>
              (call.result.ok <=> (/\ call.db.wal = "logical"
                                   /\ call.db.ident = "full"
                                   /\ call.db.pub))
        /\ {call.result.issues[i].unmet : i \in 1..Len(call.result.issues)}
              = Unmet(call.db, call.errs)
        /\ Len(call.result.issues) = Cardinality(Unmet(call.db, call.errs))

\* all three conditions unmet, all three named
C15_Witness ==
    /\ call.op = "is_replication_configured" /\ call.done
    /\ call.errs = {}
    /\ call.db.wal = "replica" /\ call.db.ident = "default" /\ ~call.db.pub
    /\ ~call.result.ok
    /\ Len(call.result.issues) = 3

C17_ConfiguredOnlyAfterRestart ==
    (/\ call.op = "configure_replication" /\ call.done
     /\ call.db = DbInitial /\ call.errs = {}
     /\ call.walOK /\ call.identOK /\ call.pubTry # "refused")
        => /\ call.first.issued = {"wal", "ident", "pub"}
           /\ call.first.restart_requested
           /\ call.first.db.walConf = "logical"
           /\ call.first.db.ident = "full"
           /\ call.first.db.pub
           /\ call.first.result = "true"
                => (call.restart = "ok" /\ call.first.db.wal = "logical")
           /\ call.restart \in {"slow", "failed"}
                => /\ call.first.result = "false"
                   /\ call.first.db.wal = "replica"
                   /\ ~is_replication_configured(call.first.db, {})

\* the restart is pending when the call returns
C17_Witness ==
    /\ call.op = "configure_replication" /\ call.done
    /\ call.db = DbInitial /\ call.errs = {}
    /\ call.restart = "slow"
    /\ call.first.result = "false"
    /\ call.first.db = [wal |-> "replica", walConf |-> "logical", ident |-> "full",
                         pub |-> TRUE]

\* C18: when ALTER SYSTEM is refused, configure_replication returns false without
\* raising and has still set replica identity full and created the publication.
C18_RefusedWalStillReconcilesOthers ==
    (/\ call.op = "configure_replication" /\ call.done
     /\ check_wal_level(call.db, call.errs) # "logical"
     /\ ~call.walOK /\ call.identOK /\ call.pubTry # "refused")
        => /\ call.first.result = "false"
           /\ call.first.db.ident = "full"
           /\ call.first.db.pub

\* C19: when the publication appears between check_publication_exists and
\* CREATE PUBLICATION, the call goes on exactly as if it had created the
\* publication itself; when the creation is refused for another reason the
\* call returns false and the publication is still missing.
C19_RacedCreationCountsAsCreated ==
    (call.op = "configure_replication" /\ call.done /\ "pub" \in call.first.issued)
        => /\ call.pubTry = "raced"
                => /\ call.first.db.pub
                   /\ call.first = configure_replication(call.db, call.errs, call.walOK,
                                                          call.identOK, "ok", call.restart)
           /\ (call.pubTry = "refused" /\ ~call.db.pub)
                => (call.first.result = "false" /\ ~call.first.db.pub)

\* the race on a database that lacked only the publication
C19_Witness ==
    /\ call.op = "configure_replication" /\ call.done
    /\ call.pubTry = "raced" /\ call.errs = {}
    /\ call.db = [wal |-> "logical", walConf |-> "logical", ident |-> "full",
                   pub |-> FALSE]
    /\ call.first.issued = {"pub"}
    /\ call.first.result = "true"

\* C20: create_droplet returns none and creates nothing whenever a droplet with
\* the tag exists when it is called, and returns none, creating nothing, when the
\* provider rejects the creation.
C20_NoCreationWhileTaggedDropletExists ==
    (call.op = "create_droplet" /\ call.done)
        => /\ call.droplets # <<>>
                => (~call.result.created /\ call.result.droplets = call.droplets)
           /\ ~call.createOK
                => (~call.result.created /\ call.result.droplets = call.droplets)

\* C21: destroy_droplet calls destroy on every tagged droplet, also after an
\* earlier destroy failed, and returns false iff at least one destroy failed.
C21_DestroyAttemptsEveryDroplet ==
    (call.op = "destroy_droplet" /\ call.done)
        => /\ call.result.attempted = 1..Len(call.droplets)
           /\ call.result.result = FALSE
                <=> \E i \in 1..Len(call.droplets) : ~call.destroyOK[i]

\* C22: wait_for_droplet_ready always returns: with true only when its last poll
\* showed status active together with an address; a poll that raises is
\* followed by a further passage through the loop; and with false, once the
\* timeout has elapsed and less than one interval and one poll later, when no
\* poll showed an address.
C22_WaitAlwaysTerminates ==
    /\ [](call.op = "wait_for_droplet_ready" =>
             /\ (call.done /\ call.result)
                  => (/\ ~call.last.raised /\ call.last.ip
                      /\ call.last.status = "active")
             /\ (call.polls > 0 /\ call.last.raised) => ~(call.done /\ call.result)
             /\ (call.done /\ ~call.result)
                  => /\ call.elapsed >= call.timeout
                     /\ call.elapsed < call.timeout + PollInterval + 2
             /\ (call.done /\ ~call.seen_ip) => ~call.result
             /\ ~call.done => call.elapsed < call.timeout + PollInterval + 2)
    /\ <>(call.op = "wait_for_droplet_ready" => call.done)

\* timeout 30 and a droplet that never shows an address: false after 30 seconds
C22_Witness ==
    /\ call.op = "wait_for_droplet_ready" /\ call.done
    /\ call.timeout = 30 /\ ~call.seen_ip
    /\ call.polls = 3 /\ call.elapsed = 30
    /\ ~call.result

\* C23: two calls of get_existing_droplets with no droplet created or destroyed
\* in between return the same droplets, namely exactly those of the provider
\* whose tags contain the deployment's tag, also when a listing fails.
C23_ListingIsStable ==
    (call.op = "get_existing_droplets" /\ call.done)
        => /\ call.first = call.second
           /\ call.first = tagged_droplets(call.all)

\* C24: run_check_status changes none of the three flags, the cached bundle, the
\* counter or the mode, does not write the state file, and sends the database no
\* statement, requests no restart and creates or destroys no droplet.
C24_CheckStatusIsReadOnly ==
    [][call.op = "run_check_status"
          => /\ UNCHANGED <<deployment_state, config_cache, consecutive_healthy_cycles,
                            is_disabled, file, db, droplets>>
             /\ call'.result.issued = {}]_vars

\* a status check that found the database not configured and a droplet
C24_Witness ==
    /\ call.op = "run_check_status" /\ call.done
    /\ call.result.postgres = "not_configured"
    /\ call.result.supervisor = "present"
    /\ db = DbInitial
    /\ Len(droplets) = 1
    /\ file.state = "whole"

\* the cached bundle holds a token but not both the shared secret and the API
\* origin
PartialBundle(config) == config.TRIGGER_WORKER_TOKEN # NoToken /\ missing_keys(config)

\* C25: when the cached bundle is partial and the platform provides the missing
\* values from then on, some later cycle ends with a cached bundle that
\* contains them, with which the compute step can proceed.
C25_PartialBundleIsCompletedLater ==
    \/ [](~(call = Cooperative /\ PartialBundle(config_cache)))
    \/ <>(call = Cooperative /\ CycleEnded /\ ~missing_keys(config_cache))

\* C28: when the externals are cooperative from some point on, eventually a
\* cycle ends with all three flags set, and with AUTO_DISABLE set the
\* controller eventually becomes disabled.
C28_ConvergesUnderCooperativeExternals ==
    \/ [](call # Cooperative)
    \/ /\ <>(call = Cooperative /\ CycleEnded /\ is_fully_healthy(deployment_state))
       /\ cfg.AUTO_DISABLE => <>is_disabled

\* C27: a process started with IS_ACTIVE true after the loop had disabled itself
\* monitors again: when it enters the loop it is not disabled, so the loop runs
\* cycles instead of idling.
C27_RestartReenablesMonitoring ==
    [][(pc = "boot" /\ cfg.IS_ACTIVE /\ pc' = "loop")
          => loop_branch(is_disabled') = "validate"]_vars

\* the positions of an event in a trace
Positions(trace, event) == {i \in 1..Len(trace) : trace[i] = event}

\* the callback is called at most once, after every statement of the call and
\* before the final status read, which is the last thing the call does
RestartInOrder(trace) ==
    /\ Cardinality(Positions(trace, "restart")) <= 1
    /\ \A r \in Positions(trace, "restart") :
          /\ \A i \in 1..Len(trace) :
                trace[i] \in {"alter_system", "alter_table", "create_publication"} => i < r
          /\ \A v \in Positions(trace, "verify") : r < v
          /\ trace[1] = "status"

\* a step of the call before the restart failed
EarlierStepFailed ==
    \/ "wal" \in call.first.issued /\ ~call.walOK
    \/ "ident" \in call.first.issued /\ ~call.identOK
    \/ "pub" \in call.first.issued /\ call.pubTry = "refused" /\ ~call.first.db.pub

\* C29 as stated: the restart callback is called only when ALTER SYSTEM was
\* accepted in that call, at most once, after the replica-identity and
\* publication steps and before the final verification; never when the WAL level
\* in effect was logical when the call began, and never when a step failed.
C29_RestartOnlyAfterWalChange ==
    (call.op = "configure_replication" /\ call.done)
        => /\ call.first.restart_requested
                <=> Positions(call.first.trace, "restart") # {}
           /\ call.first.restart_requested => ("wal" \in call.first.issued /\ call.walOK)
           /\ RestartInOrder(call.first.trace)
           /\ call.db.wal = "logical" => ~call.first.restart_requested
           /\ EarlierStepFailed => ~call.first.restart_requested

\* C29 as amended: as stated, with "the WAL level was already logical" meaning
\* that the call read it as logical; when the read of the WAL level fails the
\* level counts as not logical, ALTER SYSTEM is sent and, if nothing is refused,
\* the callback is called, whatever the level in effect.
C29_RestartOnlyAfterWalStatement ==
    (call.op = "configure_replication" /\ call.done)
        => /\ call.first.restart_requested
                <=> Positions(call.first.trace, "restart") # {}
           /\ call.first.restart_requested => ("wal" \in call.first.issued /\ call.walOK)
           /\ RestartInOrder(call.first.trace)
           /\ check_wal_level(call.db, call.errs) = "logical"
                => ~call.first.restart_requested
           /\ EarlierStepFailed => ~call.first.restart_requested
           /\ (/\ check_wal_level(call.db, call.errs) # "logical"
               /\ ~is_replication_configured(call.db, call.errs)
               /\ ~EarlierStepFailed)
                => call.first.restart_requested

\* all three statements, then the callback, then the final status read
C29_Witness ==
    /\ call.op = "configure_replication" /\ call.done
    /\ call.db = DbInitial /\ call.errs = {}
    /\ call.first.trace = <<"status", "alter_system", "alter_table",
                             "create_publication", "restart", "verify">>

\* C30: when the restart requested by configure_replication fails or does not
\* take effect, the call returns false without raising, replica identity full
\* and the publication stay as the call set them, and the next call, its reads
\* succeeding, sends neither ALTER TABLE nor CREATE PUBLICATION.
C30_FailedRestartKeepsStructure ==
    (/\ call.op = "configure_replication" /\ call.done
     /\ call.first.restart_requested
     /\ call.restart \in {"slow", "failed", "raised"})
        => /\ call.first.result = "false"
           /\ call.first.db.ident = "full"
           /\ call.first.db.pub
           /\ (call.again /\ call.errs2 = {})
                => call.second.issued \cap {"ident", "pub"} = {}

\* C26: load_state after a save_state that wrote the file restores exactly the
\* saved flags, cached bundle, counter and mode; with the file absent or
\* unreadable load_state raises nothing and the controller starts with the three
\* flags unset, an empty cache, counter 0 and mode monitoring.
C26_RestartResumesFromRecord ==
    (call.op = "load_state" /\ call.step = "done")
        => IF call.write = "whole"
           THEN /\ deployment_state = call.saved.deployment_state
                /\ config_cache = call.saved.config_cache
                /\ consecutive_healthy_cycles = call.saved.consecutive_healthy_cycles
                /\ is_disabled = call.saved.is_disabled
           ELSE /\ deployment_state = CleanState
                /\ config_cache = EmptyBundle
                /\ consecutive_healthy_cycles = 0
                /\ ~is_disabled

\* a disabled controller with a partial bundle and counter 2, restored
C26_Witness ==
    /\ call.op = "load_state" /\ call.step = "done" /\ call.write = "whole"
    /\ is_disabled
    /\ consecutive_healthy_cycles = 2
    /\ is_fully_healthy(deployment_state)
    /\ config_cache = [TRIGGER_WORKER_TOKEN |-> LogToken, MANAGED_WORKER_SECRET |-> TRUE,
                       TRIGGER_API_URL |-> FALSE]

\* whether a stage of deploy_supervisor fails on the arguments of the call
StageFails(stage) ==
    IF stage = "validate" THEN missing_keys(call.config)
    ELSE IF stage = "find" THEN FALSE
    ELSE IF stage = "create"
    THEN \/ (call.list3 /\ call.droplets # <<>>)
         \/ ~call.createOK
         \/ Len(call.droplets) >= MaxDroplets
    ELSE IF stage = "wait" THEN ~call.ready
    ELSE call.health # "200"

\* C31: deploy_supervisor of the manager returns true only if the health check
\* ran in that call and succeeded; it returns false exactly when a stage failed
\* (a required key missing, the creation refused, the readiness wait timed out,
\* the health check exhausted), and the stage that failed is the last one it ran.
C31_DeployStopsAtFirstFailedStage ==
    (call.op = "deploy_supervisor" /\ call.done) =>
        LET stages == call.result.stages IN
        /\ stages # <<>>
        /\ call.result.ok
              => /\ stages[Len(stages)] = "health"
                 /\ call.health = "200"
        /\ call.result.ok <=> \A i \in 1..Len(stages) : ~StageFails(stages[i])
        /\ \A i \in 1..(Len(stages) - 1) : ~StageFails(stages[i])
        /\ ~call.result.ok => StageFails(stages[Len(stages)])
        /\ call.result.path = "deploy_missing_keys" <=> stages = <<"validate">>

\* a droplet was created and became ready, and the health check was exhausted
C31_Witness ==
    /\ call.op = "deploy_supervisor" /\ call.done
    /\ call.droplets = <<>>
    /\ call.result.stages = <<"validate", "find", "create", "wait", "health">>
    /\ ~call.result.ok
    /\ Len(call.result.droplets) = 1

\* the status classes of the answers
IsSuccessStatus(answer) == answer \in {"200", "204"}

\* the first attempt, if any, among the first n that answers with a success status
FirstSuccess(answers, n) ==
    LET hits == {k \in 1..n : IsSuccessStatus(answers[k])} IN
    IF hits = {} THEN 0 ELSE CHOOSE k \in hits : \A j \in hits : k <= j

\* C32: test_supervisor_health sends at most max_attempts requests, returns true
\* at the first attempt that answers with a 2xx status, passes over a connection
\* error as a failed attempt, and returns false after max_attempts failed attempts.
C32_HealthPollStopsAtFirstSuccess ==
    (call.op = "test_supervisor_health" /\ call.done) =>
        LET first == FirstSuccess(call.answers, call.max_attempts) IN
        /\ call.result.requests <= call.max_attempts
        /\ first # 0 => (call.result.result /\ call.result.requests = first)
        /\ first = 0 => (~call.result.result /\ call.result.requests = call.max_attempts)

\* what the explanation of the call says it saw for a condition, "met" when it
\* does not name the condition
Seen(condition) ==
    LET named == {i \in 1..Len(call.result.issues) :
                     call.result.issues[i].unmet = condition}
    IN  IF named = {} THEN "met" ELSE call.result.issues[CHOOSE i \in named : TRUE].seen

\* C33: a status read that fails is replaced by 'unknown' (WAL level), 'error'
\* (replica identity) or false (publication) and reported as unmet, the call
\* returns false without raising, and the other reads are still evaluated: each
\* reports what the database holds.
C33_FailedReadBlocksNoOtherRead ==
    (call.op = "is_replication_configured" /\ call.done) =>
        /\ "wal" \in call.errs => Seen("wal_level") = "unknown"
        /\ "ident" \in call.errs => Seen("replica_identity") = "error"
        /\ "pub" \in call.errs => Seen("publication") = "missing"
        /\ call.errs # {} => ~call.result.ok
        /\ "wal" \notin call.errs
              => Seen("wal_level") = IF call.db.wal = "logical" THEN "met" ELSE call.db.wal
        /\ "ident" \notin call.errs
              => Seen("replica_identity")
                    = IF call.db.ident = "full" THEN "met" ELSE call.db.ident
        /\ "pub" \notin call.errs
              => Seen("publication") = IF call.db.pub THEN "met" ELSE "missing"

\* the first read fails; the two others are evaluated, one met and one unmet
C33_Witness ==
    /\ call.op = "is_replication_configured" /\ call.done
    /\ call.errs = {"wal"}
    /\ call.db.wal = "logical" /\ call.db.ident = "full" /\ ~call.db.pub
    /\ call.result.issues = <<[unmet |-> "wal_level", seen |-> "unknown"],
                              [unmet |-> "publication", seen |-> "missing"]>>
    /\ ~call.result.ok

\* the connections of the process that are open
OpenConnections ==
    call.abandoned + (IF call.handles.connection = "open" THEN 1 ELSE 0)

\* C34: after a scoped use of PostgresConfigurator has ended, however it ended
\* (its block fell off the end, returned early, met a failed check or mutation
\* or raised, or connect failed part-way), no connection or cursor is open, and
\* at most one connection is open at any time.
C34_ConnectionReleasedOnEveryPath ==
    call.op = "with_configurator" =>
        /\ call.step = "after"
              => (call.handles.connection # "open" /\ call.handles.cursor # "open")
        /\ OpenConnections <= 1

\* C35: after a cycle that took d seconds under an interval of i minutes the loop
\* sleeps 60 i - d seconds when that is positive and not at all otherwise: the
\* sleep is never negative and never longer than the interval, and when the
\* cycle took at least the interval the loop warns and goes on at once.
C35_SleepIsRestOfInterval ==
    (call.op = "sleep_time" /\ call.done) =>
        LET interval == 60 * call.check_interval
            d == call.cycle_duration
        IN  /\ call.result.sleep_time >= 0
            /\ call.result.sleep_time <= interval
            /\ d < interval => /\ call.result.sleep_time = interval - d
                               /\ call.result.then = "sleep"
            /\ d >= interval => /\ call.result.sleep_time = 0
                                /\ call.result.then = "warning"

\* a cycle that overran an interval of two minutes by a second
C35_Witness ==
    /\ call.op = "sleep_time" /\ call.done
    /\ call.check_interval = 2 /\ call.cycle_duration = 121
    /\ call.result = [sleep_time |-> 0, then |-> "warning"]

\* C36: the tag is a function of the project and the environment id: the same
\* identity gives the same tag every time, and two different environments, of
\* the same project or of different ones, never give the same tag.
C36_TagDistinguishesEnvironments ==
    (call.op = "get_supervisor_tag" /\ call.done) =>
        /\ call.tag = call.tag_again
        /\ call.one = call.other => call.tag = call.tag_other
        /\ call.one.environment # call.other.environment => call.tag # call.tag_other

\* C37: in a process that starts from the clean initial state the counter is
\* never negative, a counter above 0 comes with all three flags set, and the
\* controller is disabled only with AUTO_DISABLE set and the counter at or above
\* the threshold.
C37_CounterAndModeAgreeWithFlags ==
    /\ consecutive_healthy_cycles >= 0
    /\ consecutive_healthy_cycles > 0 => is_fully_healthy(deployment_state)
    /\ is_disabled => /\ cfg.AUTO_DISABLE
                      /\ consecutive_healthy_cycles >= cfg.HEALTHY_CYCLES_BEFORE_DISABLE

\* one healthy cycle counted, under a threshold of two, then a cycle that is not
C37_Witness ==
    /\ pc = "save"
    /\ cfg.AUTO_DISABLE /\ cfg.HEALTHY_CYCLES_BEFORE_DISABLE = 2
    /\ streak = 0
    /\ cyc.kind = "evaluated" /\ cyc.pg = "recheck_bad"
    /\ consecutive_healthy_cycles = 0
    /\ ~is_disabled

PostgresFailPaths == {"configure_exc", "configure_fail", "recheck_bad", "recheck_exc"}

SupervisorFailPaths == {"deploy_no_config", "deploy_exc", "deploy_missing_keys",
                        "deploy_unhealthy", "deploy_not_created", "deploy_timeout",
                        "recheck_exc", "recheck_absent", "recheck_noip",
                        "recheck_unreachable", "recheck_http"}

RecheckPaths == {"recheck_exc", "recheck_absent", "recheck_noip", "recheck_unreachable",
                 "recheck_http", "recheck_healthy"}

\* C38: every cycle that gets past extraction runs the database step and then
\* the compute step, the deploy when supervisor_deployed is unset and the
\* re-check when it is set, whatever the database step did; a database step
\* that failed leaves supervisor_deployed to the compute step alone, and a
\* compute step that failed leaves postgres_configured, and the database, to the
\* database step alone.
C38_FailedStepSkipsNoStep ==
    [][(pc = "loop" /\ cyc'.kind = "evaluated")
          => /\ cyc'.pg # "none"
             /\ IF deployment_state.supervisor_deployed
                THEN cyc'.sv \in RecheckPaths
                ELSE cyc'.sv \in DeployPaths
             /\ cyc'.pg \in PostgresFailPaths
                  => deployment_state'.supervisor_deployed
                        = IF cyc'.sv \in {"deploy_existing", "deploy_verified"} THEN TRUE
                          ELSE IF cyc'.sv = "recheck_absent" THEN FALSE
                          ELSE deployment_state.supervisor_deployed
             /\ cyc'.sv \in SupervisorFailPaths
                  => deployment_state'.postgres_configured
                        = IF cyc'.pg \in {"configure_already", "configure_ok"} THEN TRUE
                          ELSE IF cyc'.pg = "recheck_bad" THEN FALSE
                          ELSE deployment_state.postgres_configured]_vars

\* the database step failed and the compute step of the same cycle deployed
C38_Witness ==
    /\ pc = "save"
    /\ cyc.kind = "evaluated"
    /\ cyc.pg = "configure_fail"
    /\ cyc.sv = "deploy_verified"
    /\ ~deployment_state.postgres_configured
    /\ deployment_state.supervisor_deployed

\* the bundle is empty or lacks a non-empty worker token, shared secret or API URL
IncompleteBundle(config) ==
    \/ config.TRIGGER_WORKER_TOKEN = ""
    \/ config.MANAGED_WORKER_SECRET = FALSE
    \/ config.TRIGGER_API_URL = FALSE

\* C39 as stated: with an incomplete cached bundle the compute step creates no
\* droplet, returns false and does not set supervisor_deployed.
C39_IncompleteBundleFailsComputeStep ==
    (call.op = "compute_step" /\ call.done /\ IncompleteBundle(call.cache))
        => /\ call.result.droplets = call.droplets
           /\ ~call.result.flag

\* C39 as amended: with an incomplete cached bundle the compute step sends no
\* provisioning request and never reaches the creation path; it returns false,
\* leaving supervisor_deployed unset, unless get_deployment_info finds a tagged
\* droplet, in which case it returns true without looking at the bundle; with
\* an empty cache it returns false before any call to the provider.
C39_NoCreationFromIncompleteBundle ==
    (call.op = "compute_step" /\ call.done /\ IncompleteBundle(call.cache))
        => /\ call.result.droplets = call.droplets
           /\ call.result.path \in {"deploy_no_config", "deploy_exc", "deploy_existing",
                                     "deploy_missing_keys"}
           /\ call.result.flag <=> call.result.path = "deploy_existing"
           /\ call.result.path = "deploy_existing"
                => (call.droplets # <<>> /\ call.list1 /\ call.loadOK
                    /\ call.cache # EmptyBundle)
           /\ call.cache = EmptyBundle => call.result.path = "deploy_no_config"

\* a bundle without the API URL, no droplet, a provider that would create one
C39_Witness ==
    /\ call.op = "compute_step" /\ call.done
    /\ call.cache = [TRIGGER_WORKER_TOKEN |-> LogToken, MANAGED_WORKER_SECRET |-> TRUE,
                      TRIGGER_API_URL |-> FALSE]
    /\ call.droplets = <<>>
    /\ call.list1 /\ call.list2 /\ call.list3 /\ call.createOK /\ call.ready
    /\ call.health = "200"
    /\ call.result = [droplets |-> <<>>, flag |-> FALSE, path |-> "deploy_missing_keys"]

\* C40: in a process that starts from the clean initial state config_extracted
\* is set only while the cached bundle holds a non-empty worker token; once set
\* it is never unset; and the cached bundle changes only in a cycle whose
\* extraction succeeded, which leaves a token in it and the flag set.
C40_ExtractedFlagFollowsCache ==
    [][/\ deployment_state'.config_extracted => config_cache'.TRIGGER_WORKER_TOKEN # ""
       /\ deployment_state.config_extracted => deployment_state'.config_extracted
       /\ config_cache' # config_cache
            => /\ pc = "loop" /\ cyc'.kind = "evaluated"
               /\ config_cache'.TRIGGER_WORKER_TOKEN # ""
               /\ deployment_state'.config_extracted]_vars

\* a later cycle of a process that extracted a bundle without the API URL
C40_Witness ==
    /\ pc = "save"
    /\ cyc.kind = "evaluated" /\ cyc.pg = "recheck_ok"
    /\ deployment_state.config_extracted
    /\ config_cache = [TRIGGER_WORKER_TOKEN |-> LogToken, MANAGED_WORKER_SECRET |-> TRUE,
                       TRIGGER_API_URL |-> FALSE]

\* C10: the state file is never torn: at every instant it holds a whole record
\* (or does not exist yet).
C10_FileNeverTorn == file.state # "torn"

====
